---- MODULE Spec2Model ----
(***************************************************************************)
(* Grocery Sense: store planner, unit normaliser, identity resolver, alias *)
(* store and price history, modelled from the Python sources.              *)
(*                                                                         *)
(* Conventions.  SQL NULL / Python None is 0 for ids and counters (SQLite  *)
(* AUTOINCREMENT ids start at 1, and the code tests ids by truthiness).    *)
(* Text is an opaque string where the code only compares or copies it.     *)
(* Where the code looks inside it, text is a sequence of pieces: a piece   *)
(* is a maximal run of letters and digits, or one other character.         *)
(***************************************************************************)
EXTENDS Integers, Sequences, FiniteSets, TLC

VARIABLES
    stores_tbl,     \* table stores: sequence of rows, id = position
    shopping_tbl,   \* table shopping_list: sequence of rows, id = position
    prices,         \* table prices: set of rows with unique id
    next_price_id,  \* AUTOINCREMENT counter of table prices
    receipts,       \* table receipts: the ids of its rows
    plan,           \* last value returned by build_plan_for_active_list
    op,             \* name of the last operation that ran
    items_tbl,      \* table items: set of rows with unique id
    norm,           \* per thread: the normalize() call it is running
    aliases,        \* table item_aliases: set of rows with unique id
    next_alias_id,  \* AUTOINCREMENT counter of table item_aliases
    res,            \* per thread: the map_to_item() call it is running
    pipe,           \* a text, an abbreviation map and the pipeline's outputs
    auto_learn,     \* IngredientMappingService.auto_learn, fixed at construction
    deal,           \* one MultiBuyDealService.adjust call: its arguments and result
    conv,           \* one price taken through _convert there and back
    plan_call       \* the build_plan_for_active_list call in progress: its locals

vars == <<stores_tbl, shopping_tbl, prices, next_price_id, receipts, plan, op,
          items_tbl, norm, aliases, next_alias_id, res, pipe, auto_learn, deal, conv, plan_call>>

NULL == 0

\* An Optional[float]: None, or a number.
None == [some |-> FALSE, val |-> 0]
Some(x) == [some |-> TRUE, val |-> x]

\* ------------------------------------------------------------------------
\* Bounds of the model
\* ------------------------------------------------------------------------
MaxStoreRows == 2
MaxListRows == 2
MaxPriceRows == 2
MaxStoresArg == 2
NumThreads == 2
MaxPieces == 3
MaxTimesSeen == 3

\* ------------------------------------------------------------------------
\* Generic helpers
\* ------------------------------------------------------------------------
\* The one element of a singleton.  The({Body(x) : x \in {e}}) is Body(e) with
\* e evaluated once.
The(S) == CHOOSE x \in S : TRUE

Range(s) == {s[i] : i \in 1..Len(s)}

SeqsUpTo(S, n) == UNION {[1..k -> S] : k \in 0..n}

\* Sequences of at most n different elements of S.
InjSeqsUpTo(S, n) == {s \in SeqsUpTo(S, n) : \A i, j \in 1..Len(s) : i < j => s[i] # s[j]}

\* Subsequences of at most n elements of the sequence all.
SubSeqsUpTo(all, n) ==
    { [i \in 1..Len(ix) |-> all[ix[i]]] :
      ix \in {s \in SeqsUpTo(1..Len(all), n) : \A i, j \in 1..Len(s) : i < j => s[i] < s[j]} }

Take(s, n) == SubSeq(s, 1, IF n < Len(s) THEN n ELSE Len(s))

Max2(a, b) == IF a >= b THEN a ELSE b

RECURSIVE LexLess(_, _)
LexLess(a, b) ==
    IF a = <<>> \/ b = <<>> THEN FALSE
    ELSE IF Head(a) < Head(b) THEN TRUE
    ELSE IF Head(a) > Head(b) THEN FALSE
    ELSE LexLess(Tail(a), Tail(b))

\* Python sorted() / SQL ORDER BY with rowid tie-break: stable sort of the
\* values v of a sequence of [k |-> key tuple, v |-> value] by k.
InsertAt(sorted, x, pos) ==
    SubSeq(sorted, 1, pos) \o <<x>> \o SubSeq(sorted, pos + 1, Len(sorted))

InsertStable(sorted, x) ==
    InsertAt(sorted, x, Cardinality({j \in 1..Len(sorted) : ~LexLess(x.k, sorted[j].k)}))

RECURSIVE SortKeyed(_, _)
SortKeyed(done, todo) ==
    IF todo = <<>> THEN done
    ELSE The({SortKeyed(nxt, Tail(todo)) : nxt \in {InsertStable(done, Head(todo))}})

SortByKey(keyed) ==
    The({[i \in 1..Len(sorted) |-> sorted[i].v] : sorted \in {SortKeyed(<<>>, keyed)}})

\* ------------------------------------------------------------------------
\* Text that the planner only compares: names and their orderings
\* ------------------------------------------------------------------------
\* str.lower() on the names the model uses.
Lower(s) ==
    CASE s = "B" -> "b"
      [] s = "Milk" -> "milk"
      [] s = "Eggs" -> "eggs"
      [] s = "EGGS" -> "eggs"
      [] s = "LB" -> "lb"
      [] s = "LBS" -> "lbs"
      [] s = "KG" -> "kg"
      [] s = "G" -> "g"
      [] s = "VP" -> "vp"
      [] s = "CHK" -> "chk"
      [] s = "Chicken" -> "chicken"
      [] s = "BOGO" -> "bogo"
      [] s = "Buy" -> "buy"
      [] s = "Get" -> "get"
      [] s = "FOR" -> "for"
      [] OTHER -> s

\* str.strip() on the names the model uses.
Strip(s) ==
    CASE s = " " -> ""
      [] s = " milk" -> "milk"
      [] s = "LB " -> "LB"
      [] OTHER -> s

\* Position of a store name in SQLite's BINARY collation (ORDER BY name ASC).
BinRank(s) ==
    CASE s = "B" -> 1
      [] s = "a" -> 2
      [] s = "b" -> 3
      [] OTHER -> 4

\* Position of a lower-cased store name in Python's str ordering.
LowerRank(s) ==
    CASE s = "a" -> 1
      [] s = "b" -> 2
      [] OTHER -> 3

\* ------------------------------------------------------------------------
\* Tables the planner reads
\* ------------------------------------------------------------------------
\* Table items (the catalog is fixed while a plan is built).
ItemsTbl ==
    << [id |-> 1, canonical_name |-> "Milk"],
       [id |-> 2, canonical_name |-> "Eggs"] >>

StoreKinds ==
    { [name |-> "a", is_favorite |-> FALSE, priority |-> 0],
      [name |-> "B", is_favorite |-> TRUE,  priority |-> 0],
      [name |-> "c", is_favorite |-> FALSE, priority |-> 1],
      [name |-> "b", is_favorite |-> TRUE,  priority |-> 1] }

EntryKinds ==
    { [item_id |-> 1,    display_name |-> "tofu",  quantity |-> 2,    is_checked_off |-> FALSE, is_active |-> TRUE],
      [item_id |-> NULL, display_name |-> "EGGS",  quantity |-> NULL, is_checked_off |-> FALSE, is_active |-> TRUE],
      [item_id |-> NULL, display_name |-> "tofu",  quantity |-> 1,    is_checked_off |-> FALSE, is_active |-> TRUE],
      [item_id |-> 1,    display_name |-> " milk", quantity |-> 1,    is_checked_off |-> TRUE,  is_active |-> TRUE] }

DaysBack == 180
HistoryLimit == 12
OverallLimitFloor == 20
Today == 2 * DaysBack + 40

RecentDate == Today - 10
OldDate == Today - DaysBack - 30

\* unit_price and total_price are in thousandths of a dollar: 2002 is 2.002,
\* a price per kilogram as total / weight leaves it.
PriceKinds ==
    << [item_id |-> 1, store_id |-> 1, receipt_id |-> 1,    date |-> RecentDate, unit_price |-> 4000, unit |-> "kg",   quantity |-> 1,    total_price |-> 4000],
      [item_id |-> 1, store_id |-> 2, receipt_id |-> NULL, date |-> RecentDate, unit_price |-> 2002, unit |-> "kg",   quantity |-> NULL, total_price |-> NULL],
      [item_id |-> 2, store_id |-> 2, receipt_id |-> 2,    date |-> RecentDate, unit_price |-> 3004, unit |-> "each", quantity |-> 2,    total_price |-> 6008],
      [item_id |-> 2, store_id |-> 1, receipt_id |-> 1,    date |-> OldDate,    unit_price |-> 3004, unit |-> "each", quantity |-> 1,    total_price |-> 3004],
      [item_id |-> 1, store_id |-> 1, receipt_id |-> 2,    date |-> OldDate,    unit_price |-> 1000, unit |-> "kg",   quantity |-> 1,    total_price |-> 1000],
      [item_id |-> 2, store_id |-> 1, receipt_id |-> NULL, date |-> RecentDate, unit_price |-> 3004, unit |-> "each", quantity |-> 1,    total_price |-> 3004] >>

WithId(row, i) == [id |-> i] @@ row

\* Rows of a table built by inserting the given rows in order.
TableOf(rows) == [i \in 1..Len(rows) |-> WithId(rows[i], i)]

\* stores_repo.list_stores(): ORDER BY priority DESC, name ASC.
ListStoresKey(s) == <<0 - s.priority, BinRank(s.name)>>
ListStores(tbl) == SortByKey([i \in 1..Len(tbl) |-> [k |-> ListStoresKey(tbl[i]), v |-> tbl[i]]])

\* shopping_list_repo.list_active_items(include_checked_off, store_id=None):
\* ORDER BY added_at ASC, id ASC (rows are inserted in id order).
ListActiveItems(tbl, include_checked_off) ==
    SelectSeq(tbl, LAMBDA r : r.is_active /\ (include_checked_off \/ ~r.is_checked_off))

\* items_repo.get_item_by_id / get_item_by_name: the item id, or NULL.
GetItemById(item_id) ==
    IF \E i \in 1..Len(ItemsTbl) : ItemsTbl[i].id = item_id THEN item_id ELSE NULL

GetItemByName(name) ==
    LET clean == Strip(name)
        hits == {i \in 1..Len(ItemsTbl) : Lower(ItemsTbl[i].canonical_name) = Lower(clean)}
    IN IF clean = "" \/ hits = {} THEN NULL
       ELSE ItemsTbl[CHOOSE i \in hits : \A j \in hits : i <= j].id

\* prices_repo.get_prices_for_item: ORDER BY date DESC, id DESC, LIMIT.
PriceOrderKey(p) == <<0 - p.date, 0 - p.id>>

RECURSIVE SetToSeq(_)
SetToSeq(S) ==
    IF S = {} THEN <<>>
    ELSE The({<<x>> \o SetToSeq(S \ {x}) : x \in {CHOOSE y \in S : \A z \in S : y.id <= z.id}})

PriceHit(p, item_id, days_back, store_id) ==
    /\ p.item_id = item_id
    /\ (store_id # NULL => p.store_id = store_id)
    /\ (days_back > 0 => p.date >= Today - days_back)

GetPricesForItem(tbl, item_id, days_back, store_id, limit) ==
    The({ IF limit = NULL THEN rows ELSE Take(rows, limit) :
          rows \in { SortByKey([i \in 1..Len(found) |-> [k |-> PriceOrderKey(found[i]), v |-> found[i]]]) :
                     found \in {SetToSeq({p \in tbl : PriceHit(p, item_id, days_back, store_id)})} } })

\* ------------------------------------------------------------------------
\* PlanningService
\* ------------------------------------------------------------------------
\* A mean is kept exact as sum and sample count; n = 0 is None.
NoPrice == [sum |-> 0, n |-> 0]

RECURSIVE SumPrices(_)
SumPrices(pts) ==
    IF pts = <<>> THEN 0 ELSE Head(pts).unit_price + SumPrices(Tail(pts))

\* a < b for two means that are not None
MeanLess(a, b) == a.sum * b.n < b.sum * a.n

ResolveItem(shopping_item) ==
    IF shopping_item.item_id # NULL /\ GetItemById(shopping_item.item_id) # NULL
    THEN GetItemById(shopping_item.item_id)
    ELSE IF Strip(shopping_item.display_name) = "" THEN NULL
    ELSE GetItemByName(Strip(shopping_item.display_name))

AvgPriceForItemStore(tbl, item_id, store_id, days_back, history_limit) ==
    The({ IF Len(pts) = 0 THEN NoPrice ELSE [sum |-> SumPrices(pts), n |-> Len(pts)] :
          pts \in {GetPricesForItem(tbl, item_id, days_back, store_id, history_limit)} })

\* The estimate without the fall back to the item's cross-store average.
EstimateUnitPriceStoreOnly(tbl, item_id, store_id, days_back, history_limit) ==
    AvgPriceForItemStore(tbl, item_id, store_id, days_back, history_limit)

EstimateUnitPrice(tbl, item_id, store_id, days_back, history_limit) ==
    The({ IF at_store # NoPrice THEN at_store
          ELSE AvgPriceForItemStore(tbl, item_id, NULL, days_back,
                                    Max2(history_limit, OverallLimitFloor)) :
          at_store \in {AvgPriceForItemStore(tbl, item_id, store_id, days_back, history_limit)} })

\* The turn of the loop with <= for <: of equal means the last one wins.
BestStoreStepLastFound(best, store, avg) ==
    IF avg = NoPrice THEN best
    ELSE IF best.price = NoPrice \/ ~MeanLess(best.price, avg)
    THEN [store_id |-> store.id, price |-> avg]
    ELSE best

\* One turn of the loop over the stores: best is (best_store_id, best_price).
BestStoreStep(best, store, avg) ==
    IF avg = NoPrice THEN best
    ELSE IF best.price = NoPrice \/ MeanLess(avg, best.price)
    THEN [store_id |-> store.id, price |-> avg]
    ELSE best

RECURSIVE BestStoreLoop(_, _, _, _, _, _)
BestStoreLoop(tbl, item_row, best, stores, days_back, history_limit) ==
    IF stores = <<>> THEN best
    ELSE The({ BestStoreLoop(tbl, item_row, nxt, Tail(stores), days_back, history_limit) :
               nxt \in { BestStoreStep(best, Head(stores), avg) :
                         avg \in {AvgPriceForItemStore(tbl, item_row, Head(stores).id,
                                                       days_back, history_limit)} } })

\* (best_store_id, best_avg_price), or (NULL, NoPrice)
FindBestStoreForItem(tbl, shopping_item, stores, days_back, history_limit) ==
    The({ IF item_row = NULL THEN [store_id |-> NULL, price |-> NoPrice]
          ELSE BestStoreLoop(tbl, item_row, [store_id |-> NULL, price |-> NoPrice],
                             stores, days_back, history_limit) :
          item_row \in {ResolveItem(shopping_item)} })

StoreById(stores, sid) ==
    IF \E i \in 1..Len(stores) : stores[i].id = sid
    THEN CHOOSE i \in 1..Len(stores) : stores[i].id = sid
    ELSE NULL

\* a Python dict as the sequence of its entries in insertion order
DictKeys(d) == [i \in 1..Len(d) |-> d[i].key]
DictHas(d, k) == \E i \in 1..Len(d) : d[i].key = k
DictGet(d, k, default) ==
    IF DictHas(d, k) THEN d[CHOOSE i \in 1..Len(d) : d[i].key = k].val ELSE default
DictSet(d, k, v) ==
    IF DictHas(d, k)
    THEN [i \in 1..Len(d) |-> IF d[i].key = k THEN [key |-> k, val |-> v] ELSE d[i]]
    ELSE Append(d, [key |-> k, val |-> v])

\* item_best_store: dict shopping row id -> best store id
RECURSIVE ItemBestStoreLoop(_, _, _, _, _, _)
ItemBestStoreLoop(tbl, acc, items, stores, days_back, history_limit) ==
    IF items = <<>> THEN acc
    ELSE The({ ItemBestStoreLoop(tbl, nxt, Tail(items), stores, days_back, history_limit) :
               nxt \in { DictSet(acc, Head(items).id, best.store_id) :
                         best \in {FindBestStoreForItem(tbl, Head(items), stores,
                                                        days_back, history_limit)} } })

ItemBestStore(tbl, items, stores, days_back, history_limit) ==
    ItemBestStoreLoop(tbl, <<>>, items, stores, days_back, history_limit)

\* store_scores: dict store id -> score, in tenths (1.0 + 0.5 + 0.1 * priority)
StoreBase(store) == 10 + (IF store.is_favorite THEN 5 ELSE 0) + store.priority

\* One turn of the scoring loop.
ScoreStep(acc, itm, stores, item_best_store) ==
    The({ IF chosen = NULL \/ StoreById(stores, chosen) = NULL THEN acc
          ELSE DictSet(acc, chosen, DictGet(acc, chosen, 0) + StoreBase(stores[StoreById(stores, chosen)])) :
          chosen \in {DictGet(item_best_store, itm.id, NULL)} })

RECURSIVE StoreScoresLoop(_, _, _, _)
StoreScoresLoop(acc, items, stores, item_best_store) ==
    IF items = <<>> THEN acc
    ELSE The({ StoreScoresLoop(nxt, Tail(items), stores, item_best_store) :
               nxt \in {ScoreStep(acc, Head(items), stores, item_best_store)} })

StoreScores(items, stores, item_best_store) ==
    StoreScoresLoop(<<>>, items, stores, item_best_store)

\* The fallback sort key without the favorites-first component.
FallbackKeyNoFavorite(s) == <<0, 0 - s.priority, LowerRank(Lower(s.name))>>

FallbackKey(s) == <<IF s.is_favorite THEN 0 ELSE 1, 0 - s.priority, LowerRank(Lower(s.name))>>

FallbackStores(stores, max_stores) ==
    The({ [i \in 1..Len(top) |-> top[i].id] :
          top \in { Take(SortByKey([i \in 1..Len(stores) |-> [k |-> FallbackKey(stores[i]), v |-> stores[i]]]),
                         max_stores) } })

\* The sort key of the scored stores without reverse=True.
ScoreKeyAscending(kv) == <<kv.val>>

\* key=lambda kv: kv[1], reverse=True
ScoreKey(kv) == <<0 - kv.val>>

TopScoredStores(store_scores, max_stores) ==
    DictKeys(Take(SortByKey([i \in 1..Len(store_scores) |->
                                [k |-> ScoreKey(store_scores[i]), v |-> store_scores[i]]]),
                  max_stores))

PriorityKey(s) == <<0 - s.priority>>

\* The planner without a generic fallback store.
ChooseGenericFallbackStoreNone(stores, chosen_store_ids) == NULL

\* _choose_generic_fallback_store
ChooseGenericFallbackStore(stores, chosen_store_ids) ==
    The({ IF Len(stores) = 0 THEN NULL
          ELSE IF \E i \in 1..Len(chosen_stores) : chosen_stores[i].is_favorite
          THEN The({ SortByKey([i \in 1..Len(favs) |-> [k |-> PriorityKey(favs[i]), v |-> favs[i]]])[1].id :
                     favs \in {SelectSeq(chosen_stores, LAMBDA s : s.is_favorite)} })
          ELSE IF Len(chosen_stores) > 0 THEN chosen_stores[1].id
          ELSE stores[1].id :
          chosen_stores \in {SelectSeq(stores, LAMBDA s : s.id \in Range(chosen_store_ids))} })

\* One turn of the assignment loop, with the entry's list overwritten instead
\* of appended to when it goes to the generic fallback store.
AssignOneOverwrite(prev, itm, item_best_store, chosen_store_ids, fallback_store_id) ==
    The({ IF best_store_id \in Range(chosen_store_ids)
          THEN [prev EXCEPT !.plan_by_store =
                  DictSet(@, best_store_id, Append(DictGet(@, best_store_id, <<>>), itm))]
          ELSE IF fallback_store_id # NULL
          THEN [prev EXCEPT !.plan_by_store = DictSet(@, fallback_store_id, <<itm>>)]
          ELSE [prev EXCEPT !.unassigned = Append(@, itm)] :
          best_store_id \in {DictGet(item_best_store, itm.id, NULL)} })

\* One turn of the assignment loop over plan_by_store and unassigned.
AssignOne(prev, itm, item_best_store, chosen_store_ids, fallback_store_id) ==
    The({ IF best_store_id \in Range(chosen_store_ids)
          THEN [prev EXCEPT !.plan_by_store =
                  DictSet(@, best_store_id, Append(DictGet(@, best_store_id, <<>>), itm))]
          ELSE IF fallback_store_id # NULL
          THEN [prev EXCEPT !.plan_by_store =
                  DictSet(@, fallback_store_id, Append(DictGet(@, fallback_store_id, <<>>), itm))]
          ELSE [prev EXCEPT !.unassigned = Append(@, itm)] :
          best_store_id \in {DictGet(item_best_store, itm.id, NULL)} })

RECURSIVE AssignLoop(_, _, _, _, _)
AssignLoop(acc, items, item_best_store, chosen_store_ids, fallback_store_id) ==
    IF items = <<>> THEN acc
    ELSE The({ AssignLoop(nxt, Tail(items), item_best_store, chosen_store_ids, fallback_store_id) :
               nxt \in {AssignOne(acc, Head(items), item_best_store, chosen_store_ids,
                                  fallback_store_id)} })

\* plan_by_store (dict store id -> list of rows) and unassigned
AssignItems(items, item_best_store, chosen_store_ids, fallback_store_id) ==
    AssignLoop([plan_by_store |-> [i \in 1..Len(chosen_store_ids) |->
                                      [key |-> chosen_store_ids[i], val |-> <<>>]],
                unassigned |-> <<>>],
               items, item_best_store, chosen_store_ids, fallback_store_id)

\* A float amount kept exact: n / d thousandths of a dollar.
Money(n, d) == [n |-> n, d |-> d]

MoneyAdd(a, b) == Money(a.n * b.d + b.n * a.d, a.d * b.d)

\* round(x, 2) as a whole number of cents, to the nearest cent and to the
\* even cent from an exact half.
Round2(m) ==
    The({ IF 2 * (m.n % cent) > cent THEN (m.n \div cent) + 1
          ELSE IF 2 * (m.n % cent) < cent THEN m.n \div cent
          ELSE IF (m.n \div cent) % 2 = 0 THEN m.n \div cent
          ELSE (m.n \div cent) + 1 :
          cent \in {10 * m.d} })

\* qty of the cost loops with every entry counted once.
QtyIgnored(s_item) == 1

\* qty = float(s_item.quantity) if s_item.quantity is not None else 1.0
Qty(s_item) == IF s_item.quantity # NULL THEN s_item.quantity ELSE 1

\* One turn of the cost loop over the entries of one store, past the item
\* lookup and the price estimate: unit_price is NoPrice for None.
CostTurn(acc, s_item, item_row, unit_price) ==
    IF item_row = NULL \/ unit_price = NoPrice
    THEN [acc EXCEPT !.missing_items = @ + 1]
    ELSE [acc EXCEPT !.estimated_items = @ + 1,
                     !.subtotal = MoneyAdd(@, Money(unit_price.sum * Qty(s_item), unit_price.n)),
                     !.store_has_any = TRUE,
                     !.priced = Append(@, s_item.id)]

\* One turn of the cost loop on one snapshot of the price history.
CostStep(tbl, acc, store_id, s_item, days_back, history_limit) ==
    The({ CostTurn(acc, s_item, item_row,
                   IF item_row = NULL THEN NoPrice
                   ELSE EstimateUnitPrice(tbl, item_row, store_id, days_back, history_limit)) :
          item_row \in {ResolveItem(s_item)} })

RECURSIVE CostLoop(_, _, _, _, _, _)
CostLoop(tbl, acc, store_id, items, days_back, history_limit) ==
    IF items = <<>> THEN acc
    ELSE The({ CostLoop(tbl, nxt, store_id, Tail(items), days_back, history_limit) :
               nxt \in {CostStep(tbl, acc, store_id, Head(items), days_back, history_limit)} })

\* Counters and subtotal of one pass of _compute_costs over the entries of one store.
StoreCostCounters(tbl, store_id, items, days_back, history_limit) ==
    CostLoop(tbl, [estimated_items |-> 0, missing_items |-> 0,
                   subtotal |-> Money(0, 1), store_has_any |-> FALSE, priced |-> <<>>],
             store_id, items, days_back, history_limit)

CoverageMissing(total_items, estimated_items) == Max2(0, total_items - estimated_items)

RECURSIVE SumLens(_)
SumLens(plan_by_store) ==
    IF plan_by_store = <<>> THEN 0
    ELSE Len(Head(plan_by_store).val) + SumLens(Tail(plan_by_store))

RECURSIVE SumEstimated(_)
SumEstimated(per_store) ==
    IF per_store = <<>> THEN 0
    ELSE Head(per_store).val.estimated_items + SumEstimated(Tail(per_store))

\* basket_total: the subtotals as accumulated, before any rounding
RECURSIVE BasketTotal(_)
BasketTotal(per_store) ==
    IF per_store = <<>> THEN Money(0, 1)
    ELSE MoneyAdd(Head(per_store).val.subtotal, BasketTotal(Tail(per_store)))

Coverage(total_items, estimated_items) ==
    [total_items |-> total_items,
     estimated_items |-> estimated_items,
     missing_items |-> CoverageMissing(total_items, estimated_items)]

\* The baseline store without the preference for favorites.
ChooseBaselineStoreNoFavorite(stores) ==
    IF Len(stores) = 0 THEN NULL
    ELSE SortByKey([i \in 1..Len(stores) |->
                      [k |-> <<0 - stores[i].priority, LowerRank(Lower(stores[i].name))>>,
                       v |-> stores[i]]])[1].id

\* _choose_baseline_store: the id of the store, or NULL
ChooseBaselineStore(stores) ==
    IF Len(stores) = 0 THEN NULL
    ELSE IF \E i \in 1..Len(stores) : stores[i].is_favorite
    THEN The({ SortByKey([i \in 1..Len(favs) |-> [k |-> PriorityKey(favs[i]), v |-> favs[i]]])[1].id :
               favs \in {SelectSeq(stores, LAMBDA s : s.is_favorite)} })
    ELSE SortByKey([i \in 1..Len(stores) |->
                      [k |-> <<0 - stores[i].priority, LowerRank(Lower(stores[i].name))>>,
                       v |-> stores[i]]])[1].id

\* One turn of the baseline loop, past the item lookup and the price estimate.
BaselineTurn(acc, s_item, item_row, unit_price) ==
    IF item_row = NULL \/ unit_price = NoPrice THEN acc
    ELSE [baseline_total |-> MoneyAdd(acc.baseline_total,
                                      Money(unit_price.sum * Qty(s_item), unit_price.n)),
          baseline_has_any |-> TRUE,
          priced |-> Append(acc.priced, s_item.id)]

\* The turn of the baseline loop that prices an entry only from the baseline
\* store's own history.
BaselineStepStoreOnly(tbl, acc, baseline_store, s_item, days_back, history_limit) ==
    The({ BaselineTurn(acc, s_item, item_row,
                       IF item_row = NULL THEN NoPrice
                       ELSE AvgPriceForItemStore(tbl, item_row, baseline_store,
                                                 days_back, history_limit)) :
          item_row \in {ResolveItem(s_item)} })

\* One turn of the baseline loop on one snapshot of the price history.
BaselineStep(tbl, acc, baseline_store, s_item, days_back, history_limit) ==
    The({ BaselineTurn(acc, s_item, item_row,
                       IF item_row = NULL THEN NoPrice
                       ELSE EstimateUnitPrice(tbl, item_row, baseline_store,
                                              days_back, history_limit)) :
          item_row \in {ResolveItem(s_item)} })

RECURSIVE BaselineLoop(_, _, _, _, _, _)
BaselineLoop(tbl, acc, baseline_store, items, days_back, history_limit) ==
    IF items = <<>> THEN acc
    ELSE The({ BaselineLoop(tbl, nxt, baseline_store, Tail(items), days_back, history_limit) :
               nxt \in {BaselineStep(tbl, acc, baseline_store, Head(items),
                                     days_back, history_limit)} })

\* The entries of plan_by_store, store after store.
RECURSIVE PlanItems(_)
PlanItems(plan_by_store) ==
    IF plan_by_store = <<>> THEN <<>>
    ELSE Head(plan_by_store).val \o PlanItems(Tail(plan_by_store))

\* The baseline pass: baseline_total, baseline_has_any, and the ids of the
\* entries that were added to the total.
BaselinePass(tbl, plan_by_store, baseline_store, days_back, history_limit) ==
    IF baseline_store = NULL
    THEN [baseline_total |-> Money(0, 1), baseline_has_any |-> FALSE, priced |-> <<>>]
    ELSE BaselineLoop(tbl, [baseline_total |-> Money(0, 1), baseline_has_any |-> FALSE,
                            priced |-> <<>>],
                      baseline_store, PlanItems(plan_by_store), days_back, history_limit)

\* baseline_total_estimate, in cents
BaselineTotalEstimate(pass) ==
    IF pass.baseline_has_any THEN Some(Round2(pass.baseline_total)) ELSE None

\* The ids of the entries that were added to a store's subtotal, store after store.
RECURSIVE BasketPriced(_)
BasketPriced(per_store) ==
    IF per_store = <<>> THEN <<>>
    ELSE Head(per_store).val.priced \o BasketPriced(Tail(per_store))

\* savings = round(baseline_total_estimate - basket_total_estimate, 2), in cents
Savings(baseline_total_estimate, basket_total_estimate) ==
    IF baseline_total_estimate.some /\ basket_total_estimate.some
    THEN Some(baseline_total_estimate.val - basket_total_estimate.val)
    ELSE None

\* estimated_subtotal of one store, in cents
EstimatedSubtotal(counters) ==
    IF counters.store_has_any THEN Some(Round2(counters.subtotal)) ELSE None

\* The dict _compute_costs returns, from the counters of the stores and the
\* outcome of the baseline pass.
CostResults(plan_by_store, unassigned, per_store, pass) ==
    The({ [per_store |-> per_store,
           basket_total_estimate |-> basket,
           baseline_total_estimate |-> BaselineTotalEstimate(pass),
           estimated_savings |-> Savings(BaselineTotalEstimate(pass), basket),
           coverage |-> Coverage(SumLens(plan_by_store) + Len(unassigned), SumEstimated(per_store)),
           basket_priced |-> BasketPriced(per_store),
           baseline_priced |-> pass.priced] :
          basket \in { IF \E i \in 1..Len(per_store) : per_store[i].val.store_has_any
                       THEN Some(Round2(BasketTotal(per_store))) ELSE None } })

ComputeCosts(tbl, plan_by_store, unassigned, baseline_store, days_back, history_limit) ==
    The({ CostResults(plan_by_store, unassigned, per_store,
                      BaselinePass(tbl, plan_by_store, baseline_store, days_back, history_limit)) :
          per_store \in { [i \in 1..Len(plan_by_store) |->
                             [key |-> plan_by_store[i].key,
                              val |-> StoreCostCounters(tbl, plan_by_store[i].key,
                                                        plan_by_store[i].val,
                                                        days_back, history_limit)]] } })

NoCounters == [estimated_items |-> 0, missing_items |-> 0, subtotal |-> Money(0, 1),
               store_has_any |-> FALSE, priced |-> <<>>]

NoPlan ==
    [returned |-> FALSE, max_stores |-> 0, stores |-> <<>>, unassigned |-> <<>>,
     basket_total_estimate |-> None, baseline_store |-> NULL,
     baseline_total_estimate |-> None, estimated_savings |-> None,
     coverage |-> [total_items |-> 0, estimated_items |-> 0, missing_items |-> 0],
     item_best_store |-> <<>>, store_scores |-> <<>>, chosen_store_ids |-> <<>>,
     fallback_store_id |-> NULL, basket_priced |-> <<>>, baseline_priced |-> <<>>]

\* The early return: no items or no stores.
NoPlanPossible(items, max_stores) ==
    [returned |-> TRUE, max_stores |-> max_stores, stores |-> <<>>, unassigned |-> items,
     basket_total_estimate |-> None, baseline_store |-> NULL,
     baseline_total_estimate |-> None, estimated_savings |-> None,
     coverage |-> [total_items |-> Len(items), estimated_items |-> 0, missing_items |-> Len(items)],
     item_best_store |-> <<>>, store_scores |-> <<>>, chosen_store_ids |-> <<>>,
     fallback_store_id |-> NULL, basket_priced |-> <<>>, baseline_priced |-> <<>>]

\* "stores" of the returned dict, as the sequence of its entries in insertion order.
StoresStruct(stores, plan_by_store, per_store) ==
    The({ [i \in 1..Len(kept) |->
             [store_id |-> kept[i].key,
              items |-> kept[i].val,
              estimated_subtotal |-> EstimatedSubtotal(DictGet(per_store, kept[i].key, NoCounters)),
              estimated_items |-> DictGet(per_store, kept[i].key, NoCounters).estimated_items,
              missing_items |-> DictGet(per_store, kept[i].key, NoCounters).missing_items]] :
          kept \in {SelectSeq(plan_by_store, LAMBDA kv : StoreById(stores, kv.key) # NULL)} })

\* The dict build_plan_for_active_list returns past the early return.  The
\* record keeps, next to the dict, the locals item_best_store, store_scores,
\* chosen_store_ids and fallback_store_id of the call and the ids of the
\* entries each of the two cost passes added to its total.
ReturnedPlan(stores, max_stores, c, assigned, cost_results) ==
    [returned |-> TRUE, max_stores |-> max_stores,
     stores |-> StoresStruct(stores, assigned.plan_by_store, cost_results.per_store),
     unassigned |-> assigned.unassigned,
     basket_total_estimate |-> cost_results.basket_total_estimate,
     baseline_store |-> ChooseBaselineStore(stores),
     baseline_total_estimate |-> cost_results.baseline_total_estimate,
     estimated_savings |-> cost_results.estimated_savings,
     coverage |-> cost_results.coverage,
     item_best_store |-> c.item_best_store,
     store_scores |-> c.store_scores,
     chosen_store_ids |-> c.chosen_store_ids,
     fallback_store_id |-> c.fallback_store_id,
     basket_priced |-> cost_results.basket_priced,
     baseline_priced |-> cost_results.baseline_priced]

\* store_scores, chosen_store_ids and fallback_store_id from item_best_store.
SelectStores(items, stores, max_stores, item_best_store) ==
    The({ [item_best_store |-> item_best_store,
           store_scores |-> b.store_scores,
           chosen_store_ids |-> b.chosen_store_ids,
           fallback_store_id |-> ChooseGenericFallbackStore(stores, b.chosen_store_ids)] :
          b \in { [store_scores |-> store_scores,
                   chosen_store_ids |-> IF Len(store_scores) = 0
                                        THEN FallbackStores(stores, max_stores)
                                        ELSE TopScoredStores(store_scores, max_stores)] :
                  store_scores \in {StoreScores(items, stores, item_best_store)} } })

\* build_plan_for_active_list past the early return, on one snapshot of the
\* price history.
PlanFor(tbl, items, stores, max_stores, days_back, history_limit) ==
    The({ ReturnedPlan(stores, max_stores, ca[1], ca[2],
                       ComputeCosts(tbl, ca[2].plan_by_store, ca[2].unassigned,
                                    ChooseBaselineStore(stores), days_back, history_limit)) :
          ca \in { <<c, AssignItems(items, c.item_best_store, c.chosen_store_ids,
                                    c.fallback_store_id)>> :
                   c \in { SelectStores(items, stores, max_stores,
                                        ItemBestStore(tbl, items, stores,
                                                      days_back, history_limit)) } } })

\* The dict returned by build_plan_for_active_list for the tables as they are now.
BuildPlanForActiveList(tbl, max_stores, days_back, history_limit) ==
    The({ IF Len(is[1]) = 0 \/ Len(is[2]) = 0
          THEN NoPlanPossible(is[1], max_stores)
          ELSE PlanFor(tbl, is[1], is[2], max_stores, days_back, history_limit) :
          is \in {<<ListActiveItems(shopping_tbl, FALSE), ListStores(stores_tbl)>>} })

\* ------------------------------------------------------------------------
\* Store planner: one call on a database drawn from the bounded tables
\* ------------------------------------------------------------------------
PricesOf(rows) == {WithId(rows[i], i) : i \in 1..Len(rows)}

\* Table items as the planner sees it, no default unit recorded yet.
ItemRows == {[id |-> ItemsTbl[i].id, canonical_name |-> ItemsTbl[i].canonical_name,
              default_unit |-> ""] : i \in 1..Len(ItemsTbl)}

Threads == 1..NumThreads

\* A thread that has not made its call yet.
Idle == [pc |-> "idle"]

NoPipe == [stage |-> 0, raw |-> <<>>, abbrev_map |-> <<>>, once |-> <<>>, twice |-> <<>>]

\* The parts of the program a specification does not exercise stay as the
\* constructors leave them.
\* No call of build_plan_for_active_list is in progress.
NoCall == [pc |-> "idle"]

PlannerAtRest == stores_tbl = <<>> /\ shopping_tbl = <<>> /\ plan = NoPlan /\ plan_call = NoCall
PricesAtRest == prices = {} /\ next_price_id = 1 /\ receipts = {}
NormalizerAtRest == norm = [t \in Threads |-> Idle]
AliasesAtRest == aliases = {} /\ next_alias_id = 1
ResolverAtRest == res = [t \in Threads |-> Idle]
PipelineAtRest == pipe = NoPipe
NoDeal == [stage |-> 0]
NoConv == [stage |-> 0]
DealAtRest == deal = NoDeal
ConversionAtRest == conv = NoConv

InitPlan ==
    /\ stores_tbl \in {TableOf(r) : r \in InjSeqsUpTo(StoreKinds, MaxStoreRows)}
    /\ shopping_tbl \in {TableOf(r) : r \in InjSeqsUpTo(EntryKinds, MaxListRows)}
    /\ prices \in {PricesOf(r) : r \in SubSeqsUpTo(PriceKinds, MaxPriceRows)}
    /\ next_price_id = Cardinality(prices) + 1
    /\ receipts = {p.receipt_id : p \in prices} \ {NULL}
    /\ plan = NoPlan
    /\ plan_call = NoCall
    /\ op = "init"
    /\ items_tbl = ItemRows
    /\ NormalizerAtRest /\ AliasesAtRest /\ ResolverAtRest /\ PipelineAtRest
    /\ auto_learn = TRUE /\ DealAtRest /\ ConversionAtRest

BuildPlan ==
    /\ ~plan.returned
    /\ \E max_stores \in 0..MaxStoresArg :
          plan' = BuildPlanForActiveList(prices, max_stores, DaysBack, HistoryLimit)
    /\ op' = "build_plan"
    /\ UNCHANGED <<stores_tbl, shopping_tbl, prices, next_price_id, receipts, plan_call>>
    /\ UNCHANGED <<items_tbl, norm, aliases, next_alias_id, res, pipe, auto_learn, deal, conv>>

NextPlan == BuildPlan

SpecPlan == InitPlan /\ [][NextPlan]_vars

\* ------------------------------------------------------------------------
\* Properties of the store planner
\* ------------------------------------------------------------------------
ActiveEntries == ListActiveItems(shopping_tbl, FALSE)

\* Number of places of the returned plan that hold the entry e.
Occurrences(e) ==
    Cardinality({ij \in (1..Len(plan.stores)) \X (1..MaxListRows + 1) :
                    /\ ij[2] <= Len(plan.stores[ij[1]].items)
                    /\ plan.stores[ij[1]].items[ij[2]] = e})
    + Cardinality({j \in 1..Len(plan.unassigned) : plan.unassigned[j] = e})

BucketTotal ==
    LET L[i \in 0..Len(plan.stores)] ==
            IF i = 0 THEN 0 ELSE L[i - 1] + Len(plan.stores[i].items)
    IN L[Len(plan.stores)] + Len(plan.unassigned)

\* C1: in every returned plan each active shopping-list entry (the entries the
\* planner fetched) is in exactly one bucket, a per-store list or unassigned,
\* and the bucket sizes add up to the number of active entries.
C1_EveryEntryInOneBucket ==
    plan.returned =>
        /\ \A i \in 1..Len(ActiveEntries) : Occurrences(ActiveEntries[i]) = 1
        /\ BucketTotal = Len(ActiveEntries)

C1_Witness ==
    /\ plan.returned
    /\ Len(plan.stores) = 2
    /\ Len(plan.stores[1].items) = 1
    /\ Len(plan.stores[2].items) = 1

\* C2: the number of stores of a returned plan is at most max_stores, for
\* every max_stores including 0.
C2_AtMostMaxStores ==
    plan.returned => Len(plan.stores) <= plan.max_stores

InWindow(p) == p.date >= Today - DaysBack

\* The entry is assigned to a store and its item has a price in the window.
HasEstimate(e) ==
    /\ \E i \in 1..Len(plan.stores) : e \in Range(plan.stores[i].items)
    /\ ResolveItem(e) # NULL
    /\ \E p \in prices : p.item_id = ResolveItem(e) /\ InWindow(p)

\* C3: coverage.estimated_items + coverage.missing_items = coverage.total_items,
\* total_items is the number of active entries, estimated_items counts exactly
\* the entries that got a price estimate and missing_items exactly the others.
C3_CoverageAddsUp ==
    plan.returned =>
        LET est == {i \in 1..Len(ActiveEntries) : HasEstimate(ActiveEntries[i])}
        IN /\ plan.coverage.estimated_items + plan.coverage.missing_items
                = plan.coverage.total_items
           /\ plan.coverage.total_items = Len(ActiveEntries)
           /\ plan.coverage.estimated_items = Cardinality(est)
           /\ plan.coverage.missing_items = Len(ActiveEntries) - Cardinality(est)

\* an entry estimated through the cross-store average, next to a missing one
C3_Witness ==
    /\ plan.returned
    /\ plan.coverage.estimated_items >= 1
    /\ plan.coverage.missing_items >= 1
    /\ \E i \in 1..Len(plan.stores) : \E j \in 1..Len(plan.stores[i].items) :
          LET e == plan.stores[i].items[j]
          IN /\ HasEstimate(e)
             /\ ~\E p \in prices : /\ p.item_id = ResolveItem(e)
                                   /\ p.store_id = plan.stores[i].store_id
                                   /\ InWindow(p)

\* favorite first, then priority descending, then name
StrictlyBefore(a, b) ==
    \/ a.is_favorite /\ ~b.is_favorite
    \/ a.is_favorite = b.is_favorite /\ a.priority > b.priority
    \/ /\ a.is_favorite = b.is_favorite
       /\ a.priority = b.priority
       /\ LowerRank(Lower(a.name)) < LowerRank(Lower(b.name))

PlanStoreIds == [i \in 1..Len(plan.stores) |-> plan.stores[i].store_id]

\* The stores of the plan are the first max_stores stores in fallback order.
PlanIsFallbackPrefix ==
    /\ Len(plan.stores) = (IF plan.max_stores < Len(stores_tbl) THEN plan.max_stores ELSE Len(stores_tbl))
    /\ \A i, j \in 1..Len(plan.stores) :
          i < j => /\ PlanStoreIds[i] # PlanStoreIds[j]
                   /\ ~StrictlyBefore(stores_tbl[PlanStoreIds[j]], stores_tbl[PlanStoreIds[i]])
    /\ \A i \in 1..Len(plan.stores) : \A u \in 1..Len(stores_tbl) :
          u \notin Range(PlanStoreIds) => ~StrictlyBefore(stores_tbl[u], stores_tbl[PlanStoreIds[i]])

\* No active entry has a usable price at any store.
NoPriceHistory ==
    \A i \in 1..Len(ActiveEntries) : \A p \in prices :
        ~(/\ p.item_id = ResolveItem(ActiveEntries[i])
          /\ InWindow(p)
          /\ p.store_id \in 1..Len(stores_tbl))

StoreIds == 1..Len(stores_tbl)

\* Mean unit_price of the entry's item over its recent PricePoints at store s.
MeanAt(e, s) == AvgPriceForItemStore(prices, ResolveItem(e), s, DaysBack, HistoryLimit)

HasMean(e, s) == ResolveItem(e) # NULL /\ MeanAt(e, s) # NoPrice

\* No store with history for the entry's item has a lower mean than s.
LowestMean(e, s) ==
    /\ HasMean(e, s)
    /\ \A t \in StoreIds : HasMean(e, t) => ~MeanLess(MeanAt(e, t), MeanAt(e, s))

\* item_best_store.get(e.id)
BestOf(e) == DictGet(plan.item_best_store, e.id, NULL)

\* Store a comes before store b in list_stores(): priority descending, then name.
ListedBefore(a, b) ==
    \/ stores_tbl[a].priority > stores_tbl[b].priority
    \/ /\ stores_tbl[a].priority = stores_tbl[b].priority
       /\ BinRank(stores_tbl[a].name) < BinRank(stores_tbl[b].name)

\* C22 as stated: the best store of an entry is a store of lowest mean
\* unit_price over the item's recent PricePoints, of several such stores the
\* one of lowest id, and an entry without price history at any store or
\* without a canonical item has no best store.
C22_AsStated ==
    plan.returned =>
        \A i \in 1..Len(ActiveEntries) :
            LET e == ActiveEntries[i]
            IN IF \E s \in StoreIds : HasMean(e, s)
               THEN /\ BestOf(e) \in StoreIds
                    /\ LowestMean(e, BestOf(e))
                    /\ \A t \in StoreIds : LowestMean(e, t) => BestOf(e) <= t
               ELSE BestOf(e) = NULL

\* C22 (amended): the best store of an entry is a store of lowest mean
\* unit_price over the item's recent PricePoints, of several such stores the
\* one that list_stores() returns first (priority descending, then name), and
\* an entry without price history at any store or without a canonical item
\* has no best store.
C22_BestStore ==
    plan.returned =>
        \A i \in 1..Len(ActiveEntries) :
            LET e == ActiveEntries[i]
            IN IF \E s \in StoreIds : HasMean(e, s)
               THEN /\ BestOf(e) \in StoreIds
                    /\ LowestMean(e, BestOf(e))
                    /\ \A t \in StoreIds : LowestMean(e, t) => ~ListedBefore(t, BestOf(e))
               ELSE BestOf(e) = NULL

\* two stores tie for the lowest mean and the one of higher id is the best store
C22_Witness ==
    /\ plan.returned
    /\ \E i \in 1..Len(ActiveEntries) :
          /\ LowestMean(ActiveEntries[i], 1)
          /\ LowestMean(ActiveEntries[i], 2)
          /\ BestOf(ActiveEntries[i]) = 2

\* The active entries whose best store is s.
EntriesBestAt(s) == {i \in 1..Len(ActiveEntries) : BestOf(ActiveEntries[i]) = s}

ScoredStores == {s \in StoreIds : EntriesBestAt(s) # {}}

\* (1.0 + 0.5 if favorite + 0.1 x priority) for each entry whose best store
\* is s, in tenths.
ExpectedScore(s) ==
    Cardinality(EntriesBestAt(s))
        * (10 + (IF stores_tbl[s].is_favorite THEN 5 ELSE 0) + stores_tbl[s].priority)

SelectedStores == Range(plan.chosen_store_ids)

\* C23: when at least one entry has a best store, the scored stores are the
\* stores that are some entry's best store, the score of each is the sum over
\* those entries of 1.0 + 0.5 (favorite) + 0.1 x priority, and the selected
\* stores are max_stores of them (all of them when there are fewer), each
\* some entry's best store, none scoring below a scored store left out.
C23_TopScoredSelected ==
    (plan.returned /\ ScoredStores # {}) =>
        /\ Range(DictKeys(plan.store_scores)) = ScoredStores
        /\ \A s \in ScoredStores : DictGet(plan.store_scores, s, 0) = ExpectedScore(s)
        /\ SelectedStores \subseteq ScoredStores
        /\ Len(plan.chosen_store_ids) = Cardinality(SelectedStores)
        /\ Cardinality(SelectedStores) =
              (IF plan.max_stores < Cardinality(ScoredStores)
               THEN plan.max_stores ELSE Cardinality(ScoredStores))
        /\ \A s \in SelectedStores : \A t \in ScoredStores \ SelectedStores :
              ExpectedScore(t) <= ExpectedScore(s)

\* two scored stores, one selected, the other of strictly lower score left out
C23_Witness ==
    /\ plan.returned
    /\ plan.max_stores = 1
    /\ Cardinality(ScoredStores) = 2
    /\ \E s \in SelectedStores : \E t \in ScoredStores \ SelectedStores :
          ExpectedScore(t) < ExpectedScore(s)

\* The store whose list holds the entry, or NULL.
AssignedStore(e) ==
    IF \E i \in 1..Len(plan.stores) : e \in Range(plan.stores[i].items)
    THEN plan.stores[CHOOSE i \in 1..Len(plan.stores) : e \in Range(plan.stores[i].items)].store_id
    ELSE NULL

FavoriteSelected == \E s \in SelectedStores : stores_tbl[s].is_favorite

\* C24: an entry whose best store is selected is assigned to it; any other
\* entry is assigned to the generic fallback store, a selected store that is
\* a favorite if a selected store is one, and the first selected store (the
\* top-scoring one) otherwise.
C24_AssignedToBestOrFallback ==
    (plan.returned /\ Len(stores_tbl) >= 1) =>
        \A i \in 1..Len(ActiveEntries) :
            LET e == ActiveEntries[i]
            IN IF BestOf(e) \in SelectedStores
               THEN AssignedStore(e) = BestOf(e)
               ELSE /\ AssignedStore(e) \in SelectedStores
                    /\ FavoriteSelected => stores_tbl[AssignedStore(e)].is_favorite
                    /\ ~FavoriteSelected => AssignedStore(e) = plan.chosen_store_ids[1]

\* C25: when no store is selected, because there is no store or because
\* max_stores is 0, every active entry is in unassigned and no entry is
\* assigned to a store.
C25_NothingSelectedAllUnassigned ==
    (plan.returned /\ SelectedStores = {}) =>
        /\ plan.unassigned = ActiveEntries
        /\ \A i \in 1..Len(plan.stores) : plan.stores[i].items = <<>>

\* C28: with at least one store configured unassigned is empty, so that
\* unassigned is not empty only when no store is configured (and then it
\* holds every active entry).
C28_UnassignedOnlyWithoutStores ==
    plan.returned =>
        /\ Len(stores_tbl) >= 1 => plan.unassigned = <<>>
        /\ plan.unassigned # <<>> => Len(stores_tbl) = 0 /\ plan.unassigned = ActiveEntries

\* max_stores >= 1, an entry without a best store, and nothing unassigned
C28_Witness ==
    /\ plan.returned
    /\ Len(stores_tbl) >= 1
    /\ plan.max_stores >= 1
    /\ \E i \in 1..Len(ActiveEntries) :
          /\ BestOf(ActiveEntries[i]) = NULL
          /\ AssignedStore(ActiveEntries[i]) # NULL
    /\ plan.unassigned = <<>>

\* The estimated unit price of the entry at store s: the mean at the store,
\* and without history there the item's mean over all stores; NoPrice if the
\* entry has no item or the item no recent PricePoint.
EstimateAt(e, s) ==
    IF ResolveItem(e) = NULL THEN NoPrice
    ELSE IF HasMean(e, s) THEN MeanAt(e, s)
    ELSE AvgPriceForItemStore(prices, ResolveItem(e), NULL, DaysBack,
                              Max2(HistoryLimit, OverallLimitFloor))

\* Sum of estimated unit price x quantity over the entries that have a price
\* at store s, the quantity taken as 1 when the entry has none.
RECURSIVE PricedSum(_, _)
PricedSum(entries, s) ==
    IF entries = <<>> THEN Money(0, 1)
    ELSE IF EstimateAt(Head(entries), s) = NoPrice THEN PricedSum(Tail(entries), s)
    ELSE MoneyAdd(Money(EstimateAt(Head(entries), s).sum
                          * (IF Head(entries).quantity = NULL THEN 1 ELSE Head(entries).quantity),
                        EstimateAt(Head(entries), s).n),
                  PricedSum(Tail(entries), s))

AnyPriced(entries, s) == \E j \in 1..Len(entries) : EstimateAt(entries[j], s) # NoPrice

\* The sum of the stores' sums as accumulated, before the totals are rounded.
SumOfSubtotals ==
    LET T[i \in 0..Len(plan.stores)] ==
            IF i = 0 THEN Money(0, 1)
            ELSE MoneyAdd(T[i - 1], PricedSum(plan.stores[i].items, plan.stores[i].store_id))
    IN T[Len(plan.stores)]

\* Each store's subtotal is the sum over its priced entries, to the cent.
SubtotalsAsStated ==
    \A i \in 1..Len(plan.stores) :
        plan.stores[i].estimated_subtotal =
            IF AnyPriced(plan.stores[i].items, plan.stores[i].store_id)
            THEN Some(Round2(PricedSum(plan.stores[i].items, plan.stores[i].store_id)))
            ELSE None

\* estimated_savings is there exactly when both totals are, and is their difference.
SavingsAsStated ==
    /\ plan.estimated_savings.some
          <=> (plan.baseline_total_estimate.some /\ plan.basket_total_estimate.some)
    /\ plan.estimated_savings.some =>
          plan.estimated_savings.val
              = plan.baseline_total_estimate.val - plan.basket_total_estimate.val

C29_SameEntriesInBothTotals ==
    plan.returned =>
        /\ Range(plan.basket_priced) = Range(plan.baseline_priced)
        /\ Len(plan.basket_priced) = Len(plan.baseline_priced)
        /\ \A i \in 1..Len(ActiveEntries) :
              ActiveEntries[i].id \in Range(plan.basket_priced)
                  <=> (AssignedStore(ActiveEntries[i]) # NULL /\ HasEstimate(ActiveEntries[i]))

\* an entry in both totals that is not at the baseline store and has no
\* history there, next to an entry in neither
C29_Witness ==
    /\ plan.returned
    /\ \E i \in 1..Len(ActiveEntries) :
          /\ ActiveEntries[i].id \in Range(plan.basket_priced)
          /\ ActiveEntries[i].id \in Range(plan.baseline_priced)
          /\ AssignedStore(ActiveEntries[i]) # plan.baseline_store
          /\ ~HasMean(ActiveEntries[i], plan.baseline_store)
    /\ \E i \in 1..Len(ActiveEntries) :
          /\ AssignedStore(ActiveEntries[i]) # NULL
          /\ ActiveEntries[i].id \notin Range(plan.basket_priced)
          /\ ActiveEntries[i].id \notin Range(plan.baseline_priced)

\* ------------------------------------------------------------------------
\* UnitNormalizationService
\* ------------------------------------------------------------------------
\* The factors of _convert are kept by name: a converted price is the
\* observed price and the factor it was multiplied with.
Price(base, factor) == [base |-> base, factor |-> factor]

NoConversion == Price(0, "None")

MeaningfulUnits == {"each", "lb", "kg", "g"}

NormalizeUnit(u) ==
    IF u = "" THEN "unknown"
    ELSE The({ IF s \in {"ea", "each", "unit", "units", "ct", "count"} THEN "each"
               ELSE IF s \in {"lb", "lbs", "#", "pound", "pounds"} THEN "lb"
               ELSE IF s \in {"kg", "kgs", "kilogram", "kilograms"} THEN "kg"
               ELSE IF s \in {"g", "gram", "grams"} THEN "g"
               ELSE "unknown" :
               s \in {Lower(Strip(u))} })

\* Pieces that are numbers, \d+(\.\d+)? up to the end of the piece.
EndsInDigits(piece) == piece \in {"2", "25", "500"}

IsSpace(piece) == piece \in {" ", "\t", "\n"}

\* (\d+(\.\d+)?)\s*g\b : digits, any white space, then a g that ends a word.
HasNumberThenG(t) ==
    \E i, j \in 1..Len(t) :
        /\ i < j
        /\ EndsInDigits(t[i])
        /\ t[j] = "g"
        /\ \A k \in (i + 1)..(j - 1) : IsSpace(t[k])

HasWord(t, words) == \E i \in 1..Len(t) : t[i] \in words

\* \b#\b needs a letter or digit on both sides of the #.
HasHashInsideWord(t) ==
    \E i \in 2..(Len(t) - 1) :
        t[i] = "#" /\ ~IsSpace(t[i - 1]) /\ ~IsSpace(t[i + 1]) /\ t[i - 1] # "#" /\ t[i + 1] # "#"

GuessUnitFromText(text) ==
    The({ IF HasWord(t, {"kg", "kilogram", "kilograms"}) THEN "kg"
          ELSE IF HasNumberThenG(t) \/ HasWord(t, {"gram", "grams"}) THEN "g"
          ELSE IF HasWord(t, {"lb", "lbs", "pound", "pounds"}) \/ HasHashInsideWord(t) THEN "lb"
          ELSE "unknown" :
          t \in {[i \in 1..Len(text) |-> Lower(text[i])]} })

\* _convert with the two factors of lb and kg taken for each other
ConvertFactorsSwapped(unit_price, from_unit, to_unit) ==
    The({ IF ft[1] = ft[2] THEN Price(unit_price, "1")
          ELSE IF ft[1] = "lb" /\ ft[2] = "kg" THEN Price(unit_price, "LB_TO_KG")
          ELSE IF ft[1] = "kg" /\ ft[2] = "lb" THEN Price(unit_price, "KG_TO_LB")
          ELSE IF ft[1] = "g" /\ ft[2] = "kg" THEN Price(unit_price, "1000")
          ELSE IF ft[1] = "kg" /\ ft[2] = "g" THEN Price(unit_price, "1/1000")
          ELSE NoConversion :
          ft \in {<<NormalizeUnit(from_unit), NormalizeUnit(to_unit)>>} })

Convert(unit_price, from_unit, to_unit) ==
    The({ IF ft[1] = ft[2] THEN Price(unit_price, "1")
          ELSE IF ft[1] = "lb" /\ ft[2] = "kg" THEN Price(unit_price, "KG_TO_LB")
          ELSE IF ft[1] = "kg" /\ ft[2] = "lb" THEN Price(unit_price, "LB_TO_KG")
          ELSE IF ft[1] = "g" /\ ft[2] = "kg" THEN Price(unit_price, "1000")
          ELSE IF ft[1] = "kg" /\ ft[2] = "g" THEN Price(unit_price, "1/1000")
          ELSE NoConversion :
          ft \in {<<NormalizeUnit(from_unit), NormalizeUnit(to_unit)>>} })

\* SELECT default_unit FROM items WHERE id = ?; "" is None.
GetItemDefaultUnit(tbl, item_id) ==
    IF \E r \in tbl : r.id = item_id
    THEN Lower(Strip((CHOOSE r \in tbl : r.id = item_id).default_unit))
    ELSE ""

\* UPDATE items SET default_unit = ? WHERE id = ?
UpdateDefaultUnit(tbl, item_id, unit) ==
    {IF r.id = item_id THEN [r EXCEPT !.default_unit = unit] ELSE r : r \in tbl}

\* obs of normalize(): the observed unit, else the unit guessed from the
\* description, else each.
ObservedUnit(observed_unit, description) ==
    The({ IF o # "unknown" THEN o
          ELSE IF GuessUnitFromText(description) # "unknown" THEN GuessUnitFromText(description)
          ELSE "each" :
          o \in {NormalizeUnit(observed_unit)} })

\* normalize() that gives the default unit to a price it could not convert
NormalizedPriceUnderDefault(unit_price, obs, default_unit) ==
    IF default_unit = obs
    THEN [norm_unit_price |-> Price(unit_price, "1"), norm_unit |-> default_unit,
          note |-> "no_conversion", from |-> obs, to |-> default_unit]
    ELSE IF Convert(unit_price, obs, default_unit) = NoConversion
    THEN [norm_unit_price |-> Price(unit_price, "1"), norm_unit |-> default_unit,
          note |-> "no_conversion_possible", from |-> obs, to |-> default_unit]
    ELSE [norm_unit_price |-> Convert(unit_price, obs, default_unit), norm_unit |-> default_unit,
          note |-> "converted", from |-> obs, to |-> default_unit]

\* The NormalizedPrice that normalize() returns for the default unit it read.
NormalizedPrice(unit_price, obs, default_unit) ==
    IF default_unit = obs
    THEN [norm_unit_price |-> Price(unit_price, "1"), norm_unit |-> default_unit,
          note |-> "no_conversion", from |-> obs, to |-> default_unit]
    ELSE IF Convert(unit_price, obs, default_unit) = NoConversion
    THEN [norm_unit_price |-> Price(unit_price, "1"), norm_unit |-> obs,
          note |-> "no_conversion_possible", from |-> obs, to |-> default_unit]
    ELSE [norm_unit_price |-> Convert(unit_price, obs, default_unit), norm_unit |-> default_unit,
          note |-> "converted", from |-> obs, to |-> default_unit]

ObservedUnits == {"LB ", "kg", ""}
Descriptions == { <<>>, <<"500", " ", "G">> }
UnitPrices == {3}
\* create_item stores the default_unit text it is given
CreatedDefaultUnits == {"", "KG", "LBS", "oz"}

ItemIds == {ItemsTbl[i].id : i \in 1..Len(ItemsTbl)}

\* normalize() up to the call of set_item_default_unit_if_missing, which
\* returns at once for a unit that is not meaningful.
NormalizeCall(t) ==
    /\ norm[t].pc = "idle"
    /\ \E item_id \in ItemIds, observed_unit \in ObservedUnits,
          description \in Descriptions, unit_price \in UnitPrices :
          norm' = [norm EXCEPT ![t] =
                     The({ [pc |-> IF NormalizeUnit(obs) \in MeaningfulUnits THEN "check" ELSE "reread",
                            item_id |-> item_id, unit_price |-> unit_price, obs |-> obs,
                            cur |-> "", default_unit |-> "", result |-> NoConversion] :
                           obs \in {ObservedUnit(observed_unit, description)} })]
    /\ op' = "normalize"
    /\ UNCHANGED <<stores_tbl, shopping_tbl, prices, next_price_id, receipts, plan, plan_call>>
    /\ UNCHANGED <<items_tbl, aliases, next_alias_id, res, pipe, auto_learn, deal, conv>>

\* set_item_default_unit_if_missing: cur = self.get_item_default_unit(item_id)
SetIfMissingRead(t) ==
    /\ norm[t].pc = "check"
    /\ norm' = [norm EXCEPT ![t] =
                  The({ [norm[t] EXCEPT !.cur = cur, !.pc = IF cur # "" THEN "reread" ELSE "update"] :
                        cur \in {GetItemDefaultUnit(items_tbl, norm[t].item_id)} })]
    /\ op' = "normalize"
    /\ UNCHANGED <<stores_tbl, shopping_tbl, prices, next_price_id, receipts, plan, plan_call>>
    /\ UNCHANGED <<items_tbl, aliases, next_alias_id, res, pipe, auto_learn, deal, conv>>

\* set_item_default_unit_if_missing: the UPDATE, in a connection of its own
SetIfMissingUpdate(t) ==
    /\ norm[t].pc = "update"
    /\ items_tbl' = UpdateDefaultUnit(items_tbl, norm[t].item_id, NormalizeUnit(norm[t].obs))
    /\ norm' = [norm EXCEPT ![t].pc = "reread"]
    /\ op' = "normalize"
    /\ UNCHANGED <<stores_tbl, shopping_tbl, prices, next_price_id, receipts, plan, plan_call>>
    /\ UNCHANGED <<aliases, next_alias_id, res, pipe, auto_learn, deal, conv>>

\* normalize(): default_unit = self.get_item_default_unit(item_id) or obs,
\* and the conversion into it.
NormalizeConvert(t) ==
    /\ norm[t].pc = "reread"
    /\ norm' = [norm EXCEPT ![t] =
                  The({ [norm[t] EXCEPT !.pc = "done", !.default_unit = du,
                                        !.result = NormalizedPrice(norm[t].unit_price, norm[t].obs, du)] :
                        du \in { IF GetItemDefaultUnit(items_tbl, norm[t].item_id) # ""
                                 THEN GetItemDefaultUnit(items_tbl, norm[t].item_id)
                                 ELSE norm[t].obs } })]
    /\ op' = "normalize"
    /\ UNCHANGED <<stores_tbl, shopping_tbl, prices, next_price_id, receipts, plan, plan_call>>
    /\ UNCHANGED <<items_tbl, aliases, next_alias_id, res, pipe, auto_learn, deal, conv>>

\* Threads that each normalise one price, of items that were created with or
\* without a default unit.
InitUnit ==
    /\ items_tbl \in { {[r EXCEPT !.default_unit = du[r.id]] : r \in ItemRows} :
                       du \in [ItemIds -> CreatedDefaultUnits] }
    /\ NormalizerAtRest
    /\ op = "init"
    /\ PlannerAtRest /\ PricesAtRest /\ AliasesAtRest /\ ResolverAtRest /\ PipelineAtRest
    /\ auto_learn = TRUE /\ DealAtRest /\ ConversionAtRest

NextUnit ==
    \E t \in Threads :
        \/ NormalizeCall(t)
        \/ SetIfMissingRead(t)
        \/ SetIfMissingUpdate(t)
        \/ NormalizeConvert(t)

SpecUnit == InitUnit /\ [][NextUnit]_vars

\* normalize() from call to return with no other call in between: the
\* default unit is read, written if it is missing, read again, and the price
\* is converted into it.
NormalizeWhole(t) ==
    /\ norm[t].pc = "idle"
    /\ \E item_id \in ItemIds, observed_unit \in ObservedUnits,
          description \in Descriptions, unit_price \in UnitPrices :
          \E obs \in {ObservedUnit(observed_unit, description)} :
          \E cur \in {GetItemDefaultUnit(items_tbl, item_id)} :
             /\ items_tbl' = IF NormalizeUnit(obs) \in MeaningfulUnits /\ cur = ""
                             THEN UpdateDefaultUnit(items_tbl, item_id, NormalizeUnit(obs))
                             ELSE items_tbl
             /\ \E du \in { IF GetItemDefaultUnit(items_tbl', item_id) # ""
                              THEN GetItemDefaultUnit(items_tbl', item_id) ELSE obs } :
                   norm' = [norm EXCEPT ![t] =
                              [pc |-> "done", item_id |-> item_id, unit_price |-> unit_price,
                               obs |-> obs, cur |-> cur, default_unit |-> du,
                               result |-> NormalizedPrice(unit_price, obs, du)]]
    /\ op' = "normalize"
    /\ UNCHANGED <<stores_tbl, shopping_tbl, prices, next_price_id, receipts, plan, plan_call>>
    /\ UNCHANGED <<aliases, next_alias_id, res, pipe, auto_learn, deal, conv>>

\* Calls of normalize that follow one another.
NextUnitSeq == \E t \in Threads : NormalizeWhole(t)

SpecUnitSeq == InitUnit /\ [][NextUnitSeq]_vars

\* ------------------------------------------------------------------------
\* Properties of the unit normaliser
\* ------------------------------------------------------------------------
\* C5: once the default_unit of an item is set, no step of any normalize call
\* changes it.
C5_DefaultUnitNeverOverwritten ==
    [][\A r \in items_tbl : r.default_unit # "" => r \in items_tbl']_vars

\* the call that thread t has returned from in this step
Returned(t) == norm[t].pc # "done" /\ norm'[t].pc = "done"

\* the factor _convert is to use from one unit into the other
ExpectedFactor(from_unit, to_unit) ==
    CASE from_unit = "lb" /\ to_unit = "kg" -> "KG_TO_LB"
      [] from_unit = "kg" /\ to_unit = "lb" -> "LB_TO_KG"
      [] from_unit = "g" /\ to_unit = "kg" -> "1000"
      [] from_unit = "kg" /\ to_unit = "g" -> "1/1000"
      [] OTHER -> "None"

\* C13: a normalize call for an item with no default unit sets the default
\* unit to the resolved observed unit and returns the price unchanged with
\* note no_conversion; a call that finds a default unit lb, kg or g and
\* observes another unit convertible into it (lb-kg, g-kg) returns the default
\* unit and the price times the factor into it (a price per kg into lb is
\* multiplied by 0.45359237) and leaves the default unit as it is.
C13_FirstUnitBecomesDefault ==
    [][ \A t \in Threads : Returned(t) =>
          /\ norm'[t].cur = "" =>
                /\ GetItemDefaultUnit(items_tbl', norm'[t].item_id) = norm'[t].obs
                /\ norm'[t].result.norm_unit_price = Price(norm'[t].unit_price, "1")
                /\ norm'[t].result.norm_unit = norm'[t].obs
                /\ norm'[t].result.note = "no_conversion"
          /\ (norm'[t].cur # "" /\ ExpectedFactor(norm'[t].obs, norm'[t].cur) # "None") =>
                /\ norm'[t].result.norm_unit = norm'[t].cur
                /\ norm'[t].result.norm_unit_price =
                       Price(norm'[t].unit_price, ExpectedFactor(norm'[t].obs, norm'[t].cur))
                /\ items_tbl' = items_tbl
    ]_vars

\* a first call set the default unit lb, a later call for the same item
\* observed kg and got its price in lb
C13_Witness ==
    \E a, b \in Threads :
        /\ norm[a].pc = "done" /\ norm[b].pc = "done"
        /\ norm[a].item_id = norm[b].item_id
        /\ norm[a].cur = "" /\ norm[a].obs = "lb" /\ norm[a].result.note = "no_conversion"
        /\ norm[b].cur = "lb" /\ norm[b].obs = "kg"
        /\ norm[b].result.norm_unit = "lb"
        /\ norm[b].result.norm_unit_price = Price(norm[b].unit_price, "LB_TO_KG")
        /\ GetItemDefaultUnit(items_tbl, norm[a].item_id) = "lb"

\* C16: every NormalizedPrice that normalize returns has its unit in
\* {each, lb, kg, g}, and every default_unit that normalize writes is in that
\* set, whatever the observed unit, the description and the default_unit the
\* item was created with.
C16_UnitsStayInClosedSet ==
    [][ /\ \A t \in Threads : Returned(t) => norm'[t].result.norm_unit \in MeaningfulUnits
        /\ \A r \in items_tbl' \ items_tbl : r.default_unit \in MeaningfulUnits
    ]_vars

\* the units of a call are different units and no conversion joins them
NotConvertible(obs, default_unit) ==
    /\ NormalizeUnit(default_unit) # obs
    /\ ExpectedFactor(obs, NormalizeUnit(default_unit)) = "None"

\* C15: a normalize call for an item that has a default unit, when the
\* observed unit is another unit than the default it reads and the pair is
\* neither lb-kg nor g-kg, returns the price as it came, under the observed
\* unit, with note no_conversion_possible(observed->default), and no step of
\* the call writes the item's default unit.
C15_NoConversionPossible ==
    [][ \A t \in Threads :
          /\ (Returned(t) /\ norm'[t].cur # ""
                /\ NotConvertible(norm'[t].obs, norm'[t].default_unit)) =>
                /\ norm'[t].result.norm_unit_price = Price(norm'[t].unit_price, "1")
                /\ norm'[t].result.norm_unit = norm'[t].obs
                /\ norm'[t].result.note = "no_conversion_possible"
                /\ norm'[t].result.from = norm'[t].obs
                /\ norm'[t].result.to = norm'[t].default_unit
          /\ (norm[t].pc # "idle" /\ norm[t].cur # "" /\ norm'[t] # norm[t]) =>
                items_tbl' = items_tbl
    ]_vars

\* a call for an item with default unit kg observed each and got its price
\* back per each
C15_Witness ==
    \E t \in Threads :
        /\ norm[t].pc = "done"
        /\ norm[t].cur = "kg" /\ norm[t].default_unit = "kg" /\ norm[t].obs = "each"
        /\ norm[t].result.note = "no_conversion_possible"
        /\ norm[t].result.norm_unit = "each"
        /\ \E r \in items_tbl : r.id = norm[t].item_id /\ r.default_unit = "KG"

\* ------------------------------------------------------------------------
\* IngredientMappingService: the text pipeline
\* ------------------------------------------------------------------------
\* The characters re.sub(r"[^a-z0-9\s]", " ", t) replaces, as far as the
\* model's texts have them.
Punctuation == {"-", ".", "#", "&"}

IsWordPiece(piece) == ~IsSpace(piece) /\ piece \notin Punctuation

\* The elements of t at the indices in keep, in order.
Pick(t, keep) ==
    [j \in 1..Cardinality(keep) |->
        t[CHOOSE i \in keep : Cardinality({k \in keep : k <= i}) = j]]

LowerText(t) == [i \in 1..Len(t) |-> Lower(t[i])]

\* str.strip()
StripText(t) ==
    Pick(t, {i \in 1..Len(t) : /\ \E j \in 1..i : ~IsSpace(t[j])
                               /\ \E j \in i..Len(t) : ~IsSpace(t[j])})

\* re.sub(r"[^a-z0-9\s]", " ", t)
SubNonAlnum(t) ==
    [i \in 1..Len(t) |-> IF IsSpace(t[i]) \/ IsWordPiece(t[i]) THEN t[i] ELSE " "]

\* re.sub(r"\s+", " ", t)
CollapseSpaces(t) ==
    Pick([i \in 1..Len(t) |-> IF IsSpace(t[i]) THEN " " ELSE t[i]],
         {i \in 1..Len(t) : ~(IsSpace(t[i]) /\ i > 1 /\ IsSpace(t[i - 1]))})

NormalizeText(text) ==
    The({ StripText(CollapseSpaces(u)) : u \in {SubNonAlnum(LowerText(StripText(text)))} })

\* str.split(): the maximal runs without white space.
SplitText(t) ==
    The({ [n \in 1..Len(starts) |->
              SubSeq(t, starts[n],
                     CHOOSE e \in starts[n]..Len(t) :
                        /\ \A k \in starts[n]..e : ~IsSpace(t[k])
                        /\ (e = Len(t) \/ IsSpace(t[e + 1]))) ] :
          starts \in { Pick([i \in 1..Len(t) |-> i],
                            {i \in 1..Len(t) : ~IsSpace(t[i]) /\ (i = 1 \/ IsSpace(t[i - 1]))}) } })

\* " ".join(tokens)
RECURSIVE JoinTexts(_)
JoinTexts(tokens) ==
    IF tokens = <<>> THEN <<>>
    ELSE IF Len(tokens) = 1 THEN tokens[1]
    ELSE tokens[1] \o <<" ">> \o JoinTexts(Tail(tokens))

\* abbrev_map.get(tok, tok) on a dict kept as a sequence of entries
AbbrevGet(abbrev_map, tok) ==
    IF \E i \in 1..Len(abbrev_map) : abbrev_map[i].k = tok
    THEN abbrev_map[CHOOSE i \in 1..Len(abbrev_map) : abbrev_map[i].k = tok].v
    ELSE tok

DEFAULT_ABBREV ==
    << [k |-> <<"chk">>,  v |-> <<"chicken">>],
       [k |-> <<"thg">>,  v |-> <<"thigh">>],
       [k |-> <<"thgh">>, v |-> <<"thigh">>],
       [k |-> <<"brst">>, v |-> <<"breast">>],
       [k |-> <<"grnd">>, v |-> <<"ground">>],
       [k |-> <<"bf">>,   v |-> <<"beef">>],
       [k |-> <<"pork">>, v |-> <<"pork">>],
       [k |-> <<"skls">>, v |-> <<"skinless">>],
       [k |-> <<"bnls">>, v |-> <<"boneless">>],
       [k |-> <<"bp">>,   v |-> <<"boneless">>],
       [k |-> <<"pkg">>,  v |-> <<"pack">>],
       [k |-> <<"vp">>,   v |-> <<"value", " ", "pack">>],
       [k |-> <<"lg">>,   v |-> <<"large">>],
       [k |-> <<"sm">>,   v |-> <<"small">>],
       [k |-> <<"org">>,  v |-> <<"organic">>] >>

STOPWORDS ==
    { <<"fresh">>, <<"large">>, <<"small">>, <<"pack">>, <<"value">>, <<"bulk">>,
      <<"club">>, <<"family">>, <<"tray">>, <<"super">>, <<"store">> }

ExpandAbbrev(text, abbrev_map) ==
    The({ JoinTexts([i \in 1..Len(tokens) |-> AbbrevGet(abbrev_map, tokens[i])]) :
          tokens \in {SplitText(text)} })

RemoveStopwords(text) ==
    The({ JoinTexts(SelectSeq(tokens, LAMBDA tok : tok \notin STOPWORDS)) :
          tokens \in {SplitText(text)} })

\* The pipeline without its first _normalize.
NormalizePipelineExpandFirst(raw, abbrev_map) ==
    The({ NormalizeText(t4) :
      t4 \in { RemoveStopwords(t3) :
        t3 \in { NormalizeText(t2) :
          t2 \in { ExpandAbbrev(raw, abbrev_map) } } } })

NormalizePipeline(raw, abbrev_map) ==
    The({ NormalizeText(t4) :
      t4 \in { RemoveStopwords(t3) :
        t3 \in { NormalizeText(t2) :
          t2 \in { ExpandAbbrev(t1, abbrev_map) :
            t1 \in { NormalizeText(raw) } } } } })

\* Maps a caller can pass as abbrev_map: one whose expansions are final and
\* one whose expansion is again a key.
CustomFinal == << [k |-> <<"x">>, v |-> <<"extra", "-", "large">>] >>
CustomChained == << [k |-> <<"x">>, v |-> <<"bf">>], [k |-> <<"bf">>, v |-> <<"beef">>] >>

RawPieces == {"VP", "bf", "pork", "fresh", "x", " ", "-"}

\* Two word pieces never touch: together they would be one word.
WellFormed(t) == \A i \in 1..(Len(t) - 1) : ~(IsWordPiece(t[i]) /\ IsWordPiece(t[i + 1]))

InitPipe ==
    /\ pipe \in { [stage |-> 0, raw |-> raw, abbrev_map |-> m, once |-> <<>>, twice |-> <<>>] :
                  raw \in {t \in SeqsUpTo(RawPieces, MaxPieces) : WellFormed(t)},
                  m \in {DEFAULT_ABBREV, CustomFinal, CustomChained} }
    /\ op = "init"
    /\ items_tbl = ItemRows
    /\ PlannerAtRest /\ PricesAtRest /\ NormalizerAtRest /\ AliasesAtRest /\ ResolverAtRest
    /\ auto_learn = TRUE /\ DealAtRest /\ ConversionAtRest

\* _normalize_pipeline(raw)
RunPipeline ==
    /\ pipe.stage = 0
    /\ pipe' = [pipe EXCEPT !.stage = 1, !.once = NormalizePipeline(pipe.raw, pipe.abbrev_map)]
    /\ op' = "_normalize_pipeline"
    /\ UNCHANGED <<stores_tbl, shopping_tbl, prices, next_price_id, receipts, plan, plan_call>>
    /\ UNCHANGED <<items_tbl, norm, aliases, next_alias_id, res, auto_learn, deal, conv>>

\* _normalize_pipeline on what the first pass returned
RunPipelineAgain ==
    /\ pipe.stage = 1
    /\ pipe' = [pipe EXCEPT !.stage = 2, !.twice = NormalizePipeline(pipe.once, pipe.abbrev_map)]
    /\ op' = "_normalize_pipeline"
    /\ UNCHANGED <<stores_tbl, shopping_tbl, prices, next_price_id, receipts, plan, plan_call>>
    /\ UNCHANGED <<items_tbl, norm, aliases, next_alias_id, res, auto_learn, deal, conv>>

NextPipe == RunPipeline \/ RunPipelineAgain

SpecPipe == InitPipe /\ [][NextPipe]_vars

\* ------------------------------------------------------------------------
\* Properties of the text pipeline
\* ------------------------------------------------------------------------
\* Every token of every normalized expansion is left as it is by the map.
ExpansionsAreFinal(abbrev_map) ==
    \A i \in 1..Len(abbrev_map) :
        \A tok \in Range(SplitText(NormalizeText(abbrev_map[i].v))) :
            NormalizeText(AbbrevGet(abbrev_map, tok)) = tok

\* C10 as stated: pipeline(pipeline(x)) = pipeline(x) for every text and
\* every abbreviation map, the default one or a custom one.
C10_AsStated ==
    pipe.stage = 2 => pipe.twice = pipe.once

\* C10 (amended): the default map's expansions are final, and for every map
\* whose expansions are final pipeline(pipeline(x)) = pipeline(x).
C10_IdempotentWhenExpansionsFinal ==
    /\ ExpansionsAreFinal(DEFAULT_ABBREV)
    /\ (pipe.stage = 2 /\ ExpansionsAreFinal(pipe.abbrev_map)) => pipe.twice = pipe.once

\* "VP-bf" under the default map: expanded, stopwords dropped, run twice
C10_Witness ==
    /\ pipe.stage = 2
    /\ pipe.abbrev_map = DEFAULT_ABBREV
    /\ pipe.raw = <<"VP", "-", "bf">>
    /\ pipe.once = <<"beef">>
    /\ pipe.twice = <<"beef">>

\* ------------------------------------------------------------------------
\* ItemAliasesRepo
\* ------------------------------------------------------------------------
\* Confidences and scores are in hundredths: confidence 1.0 is 100.
NoAlias ==
    [id |-> NULL, alias_text |-> <<>>, item_id |-> NULL, confidence |-> 0,
     source |-> "", times_seen |-> 0]

\* alias_text.strip().lower()
AliasKey(alias_text) == LowerText(StripText(alias_text))

\* A SELECT with no WHERE clause: whatever row comes first.
GetByAliasAnyRow(tbl, alias_text) ==
    IF tbl # {} THEN CHOOSE r \in tbl : \A q \in tbl : r.id <= q.id ELSE NoAlias

\* SELECT ... FROM item_aliases WHERE alias_text = ? : the row, or None
GetByAlias(tbl, alias_text) ==
    The({ IF \E r \in tbl : r.alias_text = key
          THEN CHOOSE r \in tbl : r.alias_text = key
          ELSE NoAlias :
          key \in {AliasKey(alias_text)} })

\* The row that upsert_alias inserts when there is no conflict.
NewAlias(id, key, item_id, confidence, source) ==
    [id |-> id, alias_text |-> key, item_id |-> item_id, confidence |-> confidence,
     source |-> source, times_seen |-> 1]

\* A plain INSERT with no conflict clause on a table with no UNIQUE key.
UpsertAliasInsertOnly(tbl, id, alias_text, item_id, confidence, source) ==
    tbl \cup {NewAlias(id, AliasKey(alias_text), item_id, confidence, source)}

\* INSERT ... ON CONFLICT(alias_text) DO UPDATE SET ... : one statement
UpsertAlias(tbl, id, alias_text, item_id, confidence, source) ==
    The({ IF \E r \in tbl : r.alias_text = key
          THEN { IF r.alias_text = key
                 THEN [r EXCEPT !.item_id = item_id, !.confidence = confidence,
                                !.source = source, !.times_seen = r.times_seen + 1]
                 ELSE r : r \in tbl }
          ELSE tbl \cup {NewAlias(id, key, item_id, confidence, source)} :
          key \in {AliasKey(alias_text)} })

\* UPDATE item_aliases SET times_seen = times_seen + 1 WHERE alias_text = ?
MarkSeen(tbl, alias_text) ==
    The({ { IF r.alias_text = key THEN [r EXCEPT !.times_seen = r.times_seen + 1] ELSE r :
            r \in tbl } :
          key \in {AliasKey(alias_text)} })

\* The counter times_seen stays within the bound of the model.
SeenBelowBound(tbl, alias_text) ==
    \A r \in tbl : r.alias_text = AliasKey(alias_text) => r.times_seen < MaxTimesSeen

\* ------------------------------------------------------------------------
\* IngredientMappingService.map_to_item
\* ------------------------------------------------------------------------
LearnThreshold == 90
AcceptThreshold == 78
AutoLearn == auto_learn

\* Position of a canonical name in ORDER BY canonical_name ASC.
NameRank(s) ==
    CASE s = "Eggs" -> 1
      [] s = "Milk" -> 2
      [] OTHER -> 3

\* items_repo.list_all_item_names(): (id, canonical_name) sorted by name
ListAllItemNames(tbl) ==
    The({ SortByKey([i \in 1..Len(rows) |-> [k |-> <<NameRank(rows[i].canonical_name)>>, v |-> rows[i]]]) :
          rows \in {SetToSeq(tbl)} })

\* What fuzz.token_sort_ratio can answer for one candidate name.
Scores == {77, 78, 90}

\* process.extractOne: the first candidate with the highest score
ExtractOne(choices, scores) ==
    The({ [item_id |-> choices[i].id, name |-> choices[i].canonical_name, score |-> scores[i]] :
          i \in { CHOOSE i \in 1..Len(choices) :
                     /\ \A j \in 1..Len(choices) : scores[j] <= scores[i]
                     /\ \A j \in 1..(i - 1) : scores[j] < scores[i] } })

NoBest == [item_id |-> NULL, name |-> "", score |-> 0]

MappingResult(item_id, confidence, method, normalized_input) ==
    [item_id |-> item_id, confidence |-> confidence, method |-> method,
     normalized_input |-> normalized_input]

NoResult == MappingResult(NULL, 0, "", <<>>)

\* A call of map_to_item between two statements.
InCall(pc, normalized, alias, best, result) ==
    [pc |-> pc, normalized |-> normalized, alias |-> alias, best |-> best, result |-> result]

RawTexts == { <<"CHK">>, <<"bf">>, <<"fresh">> }
ManualAliasTexts == { <<" ", "Chicken">> }

\* map_to_item: the pipeline and the return for an empty normalized text
MapToItem(t) ==
    /\ res[t].pc = "idle"
    /\ \E raw_text \in RawTexts :
          res' = [res EXCEPT ![t] =
                    The({ IF normalized = <<>>
                          THEN InCall("done", normalized, NoAlias, NoBest,
                                      MappingResult(NULL, 0, "none", normalized))
                          ELSE InCall("lookup", normalized, NoAlias, NoBest, NoResult) :
                          normalized \in {NormalizePipeline(raw_text, DEFAULT_ABBREV)} })]
    /\ op' = "map_to_item"
    /\ UNCHANGED <<stores_tbl, shopping_tbl, prices, next_price_id, receipts, plan, plan_call>>
    /\ UNCHANGED <<items_tbl, norm, aliases, next_alias_id, pipe, auto_learn, deal, conv>>

\* alias = self.aliases_repo.get_by_alias(normalized)
AliasLookup(t) ==
    /\ res[t].pc = "lookup"
    /\ res' = [res EXCEPT ![t] =
                 The({ [res[t] EXCEPT !.alias = alias,
                                      !.pc = IF alias # NoAlias THEN "mark_seen" ELSE "fuzzy"] :
                       alias \in {GetByAlias(aliases, res[t].normalized)} })]
    /\ op' = "map_to_item"
    /\ UNCHANGED <<stores_tbl, shopping_tbl, prices, next_price_id, receipts, plan, plan_call>>
    /\ UNCHANGED <<items_tbl, norm, aliases, next_alias_id, pipe, auto_learn, deal, conv>>

\* self.aliases_repo.mark_seen(normalized) and the return of the alias hit
AliasMarkSeen(t) ==
    /\ res[t].pc = "mark_seen"
    /\ SeenBelowBound(aliases, res[t].normalized)
    /\ aliases' = MarkSeen(aliases, res[t].normalized)
    /\ res' = [res EXCEPT ![t] =
                 InCall("done", <<>>, NoAlias, NoBest,
                        MappingResult(res[t].alias.item_id, res[t].alias.confidence, "alias",
                                      res[t].normalized))]
    /\ op' = "map_to_item"
    /\ UNCHANGED <<stores_tbl, shopping_tbl, prices, next_price_id, receipts, plan, plan_call>>
    /\ UNCHANGED <<items_tbl, norm, next_alias_id, pipe, auto_learn, deal, conv>>

\* the fuzzy match with an auto-learn for every accepted match
FuzzyOutcomeLearnAlways(call, choices, scores) ==
    IF choices = <<>>
    THEN InCall("done", <<>>, NoAlias, NoBest, MappingResult(NULL, 0, "none", call.normalized))
    ELSE The({ IF best.score < AcceptThreshold
               THEN InCall("done", <<>>, NoAlias, NoBest,
                           MappingResult(NULL, best.score, "none", call.normalized))
               ELSE InCall("learn", call.normalized, NoAlias, best, NoResult) :
               best \in {ExtractOne(choices, scores)} })

\* The fuzzy match against the catalog, up to the auto-learn.
FuzzyOutcome(call, choices, scores) ==
    IF choices = <<>>
    THEN InCall("done", <<>>, NoAlias, NoBest, MappingResult(NULL, 0, "none", call.normalized))
    ELSE The({ IF best.score < AcceptThreshold
               THEN InCall("done", <<>>, NoAlias, NoBest,
                           MappingResult(NULL, best.score, "none", call.normalized))
               ELSE IF AutoLearn /\ best.score >= LearnThreshold
               THEN InCall("learn", call.normalized, NoAlias, best, NoResult)
               ELSE InCall("done", <<>>, NoAlias, NoBest,
                           MappingResult(best.item_id, best.score, "fuzzy", call.normalized)) :
               best \in {ExtractOne(choices, scores)} })

FuzzyMatch(t) ==
    /\ res[t].pc = "fuzzy"
    /\ \E scores \in [1..Cardinality(items_tbl) -> Scores] :
          res' = [res EXCEPT ![t] = FuzzyOutcome(res[t], ListAllItemNames(items_tbl), scores)]
    /\ op' = "map_to_item"
    /\ UNCHANGED <<stores_tbl, shopping_tbl, prices, next_price_id, receipts, plan, plan_call>>
    /\ UNCHANGED <<items_tbl, norm, aliases, next_alias_id, pipe, auto_learn, deal, conv>>

\* self.aliases_repo.upsert_alias(...) of the auto-learn and the return
LearnAlias(t) ==
    /\ res[t].pc = "learn"
    /\ SeenBelowBound(aliases, res[t].normalized)
    /\ aliases' = UpsertAlias(aliases, next_alias_id, res[t].normalized, res[t].best.item_id,
                              res[t].best.score, "auto_fuzzy")
    /\ next_alias_id' = IF Cardinality(aliases') > Cardinality(aliases)
                        THEN next_alias_id + 1 ELSE next_alias_id
    /\ res' = [res EXCEPT ![t] =
                 InCall("done", <<>>, NoAlias, NoBest,
                        MappingResult(res[t].best.item_id, res[t].best.score, "fuzzy",
                                      res[t].normalized))]
    /\ op' = "upsert_alias"
    /\ UNCHANGED <<stores_tbl, shopping_tbl, prices, next_price_id, receipts, plan, plan_call>>
    /\ UNCHANGED <<items_tbl, norm, pipe, auto_learn, deal, conv>>

\* upsert_alias called directly, with its defaults confidence 1.0 and manual
ManualUpsert ==
    /\ \E alias_text \in ManualAliasTexts, item_id \in ItemIds :
          /\ SeenBelowBound(aliases, alias_text)
          /\ aliases' = UpsertAlias(aliases, next_alias_id, alias_text, item_id, 100, "manual")
    /\ next_alias_id' = IF Cardinality(aliases') > Cardinality(aliases)
                        THEN next_alias_id + 1 ELSE next_alias_id
    /\ op' = "upsert_alias"
    /\ UNCHANGED <<stores_tbl, shopping_tbl, prices, next_price_id, receipts, plan, plan_call>>
    /\ UNCHANGED <<items_tbl, norm, res, pipe, auto_learn, deal, conv>>

\* Threads that each resolve one text, on an empty alias table, the catalog
\* empty or filled.
InitAlias ==
    /\ items_tbl \in {{}, ItemRows}
    /\ AliasesAtRest
    /\ ResolverAtRest
    /\ op = "init"
    /\ PlannerAtRest /\ PricesAtRest /\ NormalizerAtRest /\ PipelineAtRest
    /\ auto_learn \in BOOLEAN
    /\ DealAtRest /\ ConversionAtRest

NextAlias ==
    \/ ManualUpsert
    \/ \E t \in Threads :
          \/ MapToItem(t)
          \/ AliasLookup(t)
          \/ AliasMarkSeen(t)
          \/ FuzzyMatch(t)
          \/ LearnAlias(t)

SpecAlias == InitAlias /\ [][NextAlias]_vars

\* ------------------------------------------------------------------------
\* Properties of the alias store and the identity resolver
\* ------------------------------------------------------------------------
RowsFor(alias_text) == {r \in aliases : r.alias_text = alias_text}

\* The call of thread t has returned after its auto-learn upsert.
HasLearned(t) ==
    /\ auto_learn
    /\ res[t].pc = "done"
    /\ res[t].result.method = "fuzzy"
    /\ res[t].result.confidence >= LearnThreshold

\* C6: whatever the interleaving of resolver calls and upsert_alias calls, no
\* alias_text has two rows (so it points to one item), no row is lost, and a
\* text that a resolver call has learned has exactly one row.
C6_OneRowPerAlias ==
    /\ \A r1, r2 \in aliases : r1.alias_text = r2.alias_text => r1 = r2
    /\ Cardinality(aliases) = next_alias_id - 1
    /\ \A t \in Threads :
          HasLearned(t) => Cardinality(RowsFor(res[t].result.normalized_input)) = 1

\* two threads learned the same text for different items, after a manual upsert
C6_Witness ==
    \E t1, t2 \in Threads :
        /\ t1 # t2
        /\ HasLearned(t1) /\ HasLearned(t2)
        /\ res[t1].result.normalized_input = res[t2].result.normalized_input
        /\ res[t1].result.item_id # res[t2].result.item_id
        /\ \E r \in RowsFor(res[t1].result.normalized_input) : r.times_seen = 3

\* The call of thread t returns in this step.
Returns(t) == res[t].pc # "done" /\ res'[t].pc = "done"

\* C8: a call returns method alias only from a lookup that found a row whose
\* alias_text is the normalized input, and with that row's item_id; it returns
\* method fuzzy only with a best score of at least the accept threshold; and
\* fuzzy matching starts only from a lookup that found no row for the text.
C8_AliasBeforeFuzzy ==
    [][\A t \in Threads :
          /\ (res[t].pc = "lookup" /\ res'[t].pc = "mark_seen") =>
                /\ res'[t].alias \in aliases
                /\ res'[t].alias.alias_text = res[t].normalized
          /\ (Returns(t) /\ res'[t].result.method = "alias") =>
                /\ res[t].pc = "mark_seen"
                /\ res[t].alias.alias_text = res[t].normalized
                /\ res'[t].result.item_id = res[t].alias.item_id
          /\ res'[t].pc = "fuzzy" =>
                \/ res[t].pc = "fuzzy"
                \/ res[t].pc = "lookup" /\ RowsFor(res[t].normalized) = {}
          /\ (Returns(t) /\ res'[t].result.method = "fuzzy") =>
                /\ res[t].pc \in {"fuzzy", "learn"}
                /\ res'[t].result.confidence >= AcceptThreshold
                /\ res'[t].result.item_id # NULL
    ]_vars

\* one call answered from the alias table, one by an accepted fuzzy match
C8_Witness ==
    \E t1, t2 \in Threads :
        /\ res[t1].pc = "done" /\ res[t1].result.method = "alias"
        /\ res[t1].result.item_id # NULL
        /\ res[t2].pc = "done" /\ res[t2].result.method = "fuzzy"
        /\ res[t2].result.confidence = AcceptThreshold

\* C9: whenever a call returns method none its confidence is 0 and it has no
\* item id.
C9_NoneMeansZeroConfidence ==
    \A t \in Threads :
        (res[t].pc = "done" /\ res[t].result.method = "none") =>
            /\ res[t].result.confidence = 0
            /\ res[t].result.item_id = NULL

\* C17: a call that missed the alias table and has a fuzzy match goes on to
\* upsert_alias if and only if auto-learn is on and the confidence is at least
\* the learn threshold; the upsert leaves one row for the normalized text,
\* with the matched item and source auto_fuzzy; a lookup of a text that has a
\* row finds it and the call returns method alias with the row's item; and a
\* call that returns from the fuzzy match without the upsert has left the
\* alias table as it was.
C17_AutoLearn ==
    [][\A t \in Threads :
          /\ (res[t].pc = "fuzzy" /\ res'[t].pc = "learn") =>
                /\ auto_learn
                /\ res'[t].best.score >= LearnThreshold
                /\ res'[t].normalized = res[t].normalized
          /\ (res[t].pc = "fuzzy" /\ Returns(t)) =>
                /\ aliases' = aliases
                /\ res'[t].result.method = "fuzzy" =>
                      ~(auto_learn /\ res'[t].result.confidence >= LearnThreshold)
          /\ (res[t].pc = "learn" /\ Returns(t)) =>
                /\ res'[t].result.method = "fuzzy"
                /\ \E r \in aliases' :
                      /\ {q \in aliases' : q.alias_text = res[t].normalized} = {r}
                      /\ r.item_id = res'[t].result.item_id
                      /\ r.confidence = res'[t].result.confidence
                      /\ r.source = "auto_fuzzy"
                /\ \A r \in aliases : r.alias_text # res[t].normalized => r \in aliases'
          /\ (res[t].pc = "lookup" /\ res'[t] # res[t] /\ RowsFor(res[t].normalized) # {}) =>
                /\ res'[t].pc = "mark_seen"
                /\ res'[t].alias \in RowsFor(res[t].normalized)
          /\ (res[t].pc = "mark_seen" /\ Returns(t)) =>
                /\ res'[t].result.method = "alias"
                /\ res'[t].result.item_id = res[t].alias.item_id
    ]_vars

\* one call learned a text and the other, resolving the same text after it,
\* was answered from the learned row with the same item
C17_Witness ==
    \E t1, t2 \in Threads :
        /\ HasLearned(t1)
        /\ res[t2].pc = "done" /\ res[t2].result.method = "alias"
        /\ res[t2].result.normalized_input = res[t1].result.normalized_input
        /\ res[t2].result.item_id = res[t1].result.item_id
        /\ \E r \in RowsFor(res[t1].result.normalized_input) :
              r.source = "auto_fuzzy" /\ r.item_id = res[t1].result.item_id /\ r.times_seen = 2

\* C18: no step of a resolve call changes the item_id, confidence or source
\* of an alias row that is there: the alias hit adds exactly one to
\* times_seen of the row it found and returns the confidence stored in it,
\* and the auto-learn upsert is for a text that has no row.
C18_ResolveKeepsExistingRows ==
    [][\A t \in Threads : res'[t] # res[t] =>
          /\ \A r \in aliases : \E r2 \in aliases' :
                /\ r2.alias_text = r.alias_text
                /\ r2.item_id = r.item_id
                /\ r2.confidence = r.confidence
                /\ r2.source = r.source
                /\ r2.times_seen = IF res[t].pc = "mark_seen"
                                      /\ r.alias_text = AliasKey(res[t].normalized)
                                   THEN r.times_seen + 1 ELSE r.times_seen
          /\ (res[t].pc = "mark_seen" /\ Returns(t)) =>
                res'[t].result.confidence = res[t].alias.confidence
          /\ res[t].pc = "learn" => RowsFor(AliasKey(res[t].normalized)) = {}
    ]_vars

\* ------------------------------------------------------------------------
\* The price history and the operations that write to table prices
\* ------------------------------------------------------------------------
\* INSERT OR REPLACE on a table keyed by item, store and date.
InsertOrReplacePrice(tbl, id, row) ==
    {p \in tbl : ~(p.item_id = row.item_id /\ p.store_id = row.store_id /\ p.date = row.date)}
        \cup {WithId(row, id)}

\* INSERT INTO prices (...) VALUES (...)
InsertPrice(tbl, id, row) ==
    tbl \cup {WithId(row, id)}

\* prices_repo.add_price_point
AddPricePoint ==
    /\ next_price_id <= MaxPriceRows
    /\ \E row \in Range(PriceKinds) :
          prices' = InsertPrice(prices, next_price_id, row)
    /\ next_price_id' = next_price_id + 1
    /\ op' = "add_price_point"
    /\ UNCHANGED <<stores_tbl, shopping_tbl, receipts, plan, plan_call>>
    /\ UNCHANGED <<items_tbl, norm, aliases, next_alias_id, res, pipe, auto_learn, deal, conv>>

\* receipts_repo.delete_receipt_cascade; the other tables it clears hold
\* nothing but rows of the receipt.
DeleteReceiptCascade ==
    /\ \E receipt_id \in receipts :
          /\ prices' = {p \in prices : p.receipt_id # receipt_id}
          /\ receipts' = receipts \ {receipt_id}
    /\ op' = "delete_receipt_cascade"
    /\ UNCHANGED <<stores_tbl, shopping_tbl, next_price_id, plan, plan_call>>
    /\ UNCHANGED <<items_tbl, norm, aliases, next_alias_id, res, pipe, auto_learn, deal, conv>>

VALID_UNITS == {"each", "lb", "kg", "g"}

\* UPDATE <table> SET item_id = target WHERE item_id = source
MoveItemRefs(rows, target_item_id, source_item_id) ==
    {IF r.item_id = source_item_id THEN [r EXCEPT !.item_id = target_item_id] ELSE r : r \in rows}

\* merge_items: the target row takes the source's default_unit if it has
\* none, and the source row is deleted.
MergedItems(tbl, t, s) ==
    { IF r.id = t.id /\ Lower(Strip(t.default_unit)) = ""
                     /\ Lower(Strip(s.default_unit)) \in VALID_UNITS
      THEN [r EXCEPT !.default_unit = Lower(Strip(s.default_unit))]
      ELSE r : r \in tbl \ {s} }

\* merge_items: the source name is kept as an alias unless that text is taken.
MergeAlias(tbl, id, source_name, target_item_id) ==
    IF Strip(source_name) = "" \/ \E r \in tbl : r.alias_text = <<Strip(source_name)>>
    THEN tbl
    ELSE tbl \cup {[id |-> id, alias_text |-> <<Strip(source_name)>>, item_id |-> target_item_id,
                    confidence |-> 100, source |-> "merge", times_seen |-> 0]}

\* items_admin_repo.merge_items(target_item_id, source_item_id), one transaction
MergeItems ==
    /\ \E t \in items_tbl, s \in items_tbl :
          /\ t.id # s.id
          /\ items_tbl' = MergedItems(items_tbl, t, s)
          /\ prices' = MoveItemRefs(prices, t.id, s.id)
          /\ shopping_tbl' = [i \in 1..Len(shopping_tbl) |->
                                 IF shopping_tbl[i].item_id = s.id
                                 THEN [shopping_tbl[i] EXCEPT !.item_id = t.id]
                                 ELSE shopping_tbl[i]]
          /\ aliases' = MergeAlias(MoveItemRefs(aliases, t.id, s.id), next_alias_id,
                                   s.canonical_name, t.id)
    /\ next_alias_id' = IF Cardinality(aliases') > Cardinality(aliases)
                        THEN next_alias_id + 1 ELSE next_alias_id
    /\ op' = "merge_items"
    /\ UNCHANGED <<stores_tbl, next_price_id, receipts, plan, plan_call>>
    /\ UNCHANGED <<norm, res, pipe, auto_learn, deal, conv>>

\* demo_seed_service.reset_all_demo_data: DELETE FROM every table
ResetAllDemoData ==
    /\ prices' = {}
    /\ receipts' = {}
    /\ shopping_tbl' = <<>>
    /\ aliases' = {}
    /\ items_tbl' = {}
    /\ stores_tbl' = <<>>
    /\ op' = "reset_all_demo_data"
    /\ UNCHANGED <<next_price_id, plan, plan_call, norm, next_alias_id, res, pipe, auto_learn, deal, conv>>

ReceiptIds == {p.receipt_id : p \in Range(PriceKinds)} \ {NULL}

\* A database with stores, items of which one has a default unit, an alias,
\* a shopping list entry, two receipts and no price yet.
InitPrices ==
    /\ prices = {}
    /\ next_price_id = 1
    /\ receipts = ReceiptIds
    /\ stores_tbl = TableOf(<<CHOOSE k \in StoreKinds : k.name = "a",
                              CHOOSE k \in StoreKinds : k.name = "B">>)
    /\ shopping_tbl \in {TableOf(r) : r \in InjSeqsUpTo(EntryKinds, 1)}
    /\ items_tbl = {[r EXCEPT !.default_unit = IF r.id = 2 THEN "KG" ELSE ""] : r \in ItemRows}
    /\ aliases = {NewAlias(1, <<"eggs">>, 2, 100, "manual")}
    /\ next_alias_id = 2
    /\ plan = NoPlan
    /\ plan_call = NoCall
    /\ op = "init"
    /\ NormalizerAtRest /\ ResolverAtRest /\ PipelineAtRest
    /\ auto_learn = TRUE /\ DealAtRest /\ ConversionAtRest

NextPrices ==
    \/ AddPricePoint
    \/ DeleteReceiptCascade
    \/ MergeItems
    \/ ResetAllDemoData

SpecPrices == InitPrices /\ [][NextPrices]_vars

SameButItem(p, q) ==
    /\ p.store_id = q.store_id /\ p.receipt_id = q.receipt_id /\ p.date = q.date
    /\ p.unit_price = q.unit_price /\ p.unit = q.unit
    /\ p.quantity = q.quantity /\ p.total_price = q.total_price

Base == 10000

RECURSIVE BigOf(_)
BigOf(n) == IF n < Base THEN <<n>> ELSE <<n % Base>> \o BigOf(n \div Base)

\* a with carry c added in, digit by digit
RECURSIVE Carry(_, _)
Carry(a, c) ==
    IF a = <<>> THEN (IF c = 0 THEN <<>> ELSE BigOf(c))
    ELSE <<(a[1] + c) % Base>> \o Carry(Tail(a), (a[1] + c) \div Base)

\* the sum of the products a[i] * b[j] with i + j = k + 1
RECURSIVE Column(_, _, _, _)
Column(a, b, k, i) ==
    IF i > Len(a) THEN 0
    ELSE (IF k + 1 - i \in 1..Len(b) THEN a[i] * b[k + 1 - i] ELSE 0) + Column(a, b, k, i + 1)

\* leading zero digits dropped
RECURSIVE Trim(_)
Trim(a) == IF Len(a) > 1 /\ a[Len(a)] = 0 THEN Trim(SubSeq(a, 1, Len(a) - 1)) ELSE a

BigMul(a, b) == Trim(Carry([k \in 1..(Len(a) + Len(b) - 1) |-> Column(a, b, k, 1)], 0))

\* a <= b
RECURSIVE BigLeq(_, _)
BigLeq(a, b) ==
    IF Len(a) # Len(b) THEN Len(a) < Len(b)
    ELSE IF a = <<>> THEN TRUE
    ELSE IF a[Len(a)] # b[Len(b)] THEN a[Len(a)] < b[Len(b)]
    ELSE BigLeq(SubSeq(a, 1, Len(a) - 1), SubSeq(b, 1, Len(b) - 1))

\* a - b for b <= a, digit by digit with borrow c
RECURSIVE Borrow(_, _, _)
Borrow(a, b, c) ==
    IF a = <<>> THEN <<>>
    ELSE <<(a[1] - (IF b = <<>> THEN 0 ELSE b[1]) - c + Base) % Base>>
         \o Borrow(Tail(a), IF b = <<>> THEN <<>> ELSE Tail(b),
                   IF a[1] - (IF b = <<>> THEN 0 ELSE b[1]) - c < 0 THEN 1 ELSE 0)

\* |a - b|
BigDist(a, b) == IF BigLeq(b, a) THEN Trim(Borrow(a, b, 0)) ELSE Trim(Borrow(b, a, 0))

\* LB_TO_KG = 0.45359237 = 45359237 / 10^8
LB_TO_KG == [num |-> <<9237, 4535>>, den |-> <<0, 0, 1>>]

\* KG_TO_LB = 2.2046226218 = 22046226218 / 10^10
KG_TO_LB == [num |-> <<6218, 4622, 220>>, den |-> <<0, 0, 100>>]

\* the number a factor of _convert stands for
FactorValue(factor) ==
    CASE factor = "1" -> [num |-> <<1>>, den |-> <<1>>]
      [] factor = "LB_TO_KG" -> LB_TO_KG
      [] factor = "KG_TO_LB" -> KG_TO_LB
      [] factor = "1000" -> [num |-> <<1000>>, den |-> <<1>>]
      [] factor = "1/1000" -> [num |-> <<1>>, den |-> <<1000>>]

\* The value of a price that went through _convert twice, as a quotient.
TwiceConverted(price) ==
    [num |-> BigMul(BigMul(BigOf(price.base.base), FactorValue(price.base.factor).num),
                    FactorValue(price.factor).num),
     den |-> BigMul(FactorValue(price.base.factor).den, FactorValue(price.factor).den)]

\* sys.float_info.epsilon = 2^-52, as 1 / 4503599627370496
EpsilonDen == <<496, 6273, 5996, 4503>>

\* The roundings of a double product or quotient are half an epsilon each, so
\* a price taken there and back by factors that are inverses of each other
\* comes back within this many epsilons of itself.
EpsilonsAllowed == 4

\* |value - price| <= EpsilonsAllowed * epsilon * price
WithinEpsilon(value, price) ==
    BigLeq(BigMul(BigDist(value.num, BigMul(BigOf(price), value.den)), EpsilonDen),
           BigMul(BigOf(EpsilonsAllowed), BigMul(BigOf(price), value.den)))

\* The pairs of units _convert converts between, and the prices (in cents)
\* taken through them.
ConvertiblePairs == { <<"lb", "kg">>, <<"kg", "lb">>, <<"g", "kg">>, <<"kg", "g">> }
RoundTripPrices == {1, 2, 3, 99, 250, 500, 730, 1000, 1999, 4536}

InitConv ==
    /\ conv \in { [stage |-> 0, unit_price |-> p, from_unit |-> ft[1], to_unit |-> ft[2],
                   there |-> NoConversion, back |-> NoConversion] :
                  p \in RoundTripPrices, ft \in ConvertiblePairs }
    /\ op = "init"
    /\ items_tbl = ItemRows
    /\ auto_learn = TRUE
    /\ PlannerAtRest /\ PricesAtRest /\ NormalizerAtRest /\ AliasesAtRest
    /\ ResolverAtRest /\ PipelineAtRest /\ DealAtRest

\* _convert(unit_price, from_unit, to_unit)
ConvertThere ==
    /\ conv.stage = 0
    /\ conv' = [conv EXCEPT !.stage = 1,
                            !.there = Convert(conv.unit_price, conv.from_unit, conv.to_unit)]
    /\ op' = "convert"
    /\ UNCHANGED <<stores_tbl, shopping_tbl, prices, next_price_id, receipts, plan, plan_call>>
    /\ UNCHANGED <<items_tbl, norm, aliases, next_alias_id, res, pipe, auto_learn, deal>>

\* _convert(the price that came out, to_unit, from_unit)
ConvertBack ==
    /\ conv.stage = 1
    /\ conv' = [conv EXCEPT !.stage = 2,
                            !.back = Convert(conv.there, conv.to_unit, conv.from_unit)]
    /\ op' = "convert"
    /\ UNCHANGED <<stores_tbl, shopping_tbl, prices, next_price_id, receipts, plan, plan_call>>
    /\ UNCHANGED <<items_tbl, norm, aliases, next_alias_id, res, pipe, auto_learn, deal>>

NextConv == ConvertThere \/ ConvertBack

SpecConv == InitConv /\ [][NextConv]_vars

\* C14: a price converted lb to kg and back, kg to lb and back, g to kg and
\* back or kg to g and back comes back as the price it was, within
\* floating-point epsilon.
C14_RoundTrip ==
    conv.stage = 2 => WithinEpsilon(TwiceConverted(conv.back), conv.unit_price)

\* ------------------------------------------------------------------------
\* MultiBuyDealService (services/multibuy_deal_service.py)
\* ------------------------------------------------------------------------
\* Money is counted in cents.  An argument of adjust is None or a number; a
\* price the service computes is a quotient n/d of two integers, kept exact.
NoAmount == [some |-> FALSE, n |-> 0, d |-> 1]
Amount(n, d) == [some |-> TRUE, n |-> n, d |-> d]

\* an argument handed on as it came
AsAmount(x) == IF x.some THEN Amount(x.val, 1) ELSE NoAmount

\* a / b on floats: ZeroDivisionError shows as the denominator 0
Quot(n, d) == Amount(n, d)

AmountEq(a, b) == /\ a.some = b.some
                  /\ a.some => a.d # 0 /\ b.d # 0 /\ a.n * b.d = b.n * a.d

\* The runs of digits of the model's descriptions.  "10^400" stands for the
\* digit 1 followed by 400 zeros: int() reads it, float() of that int raises
\* OverflowError.  HugeInt is above every other number of the model.
Digits == {"0", "1", "2", "3", "4", "5", "10", "00", "50", "10^400"}

HugeInt == 1000000

IsDigits(piece) == piece \in Digits

\* int(m.group(1))
IntOf(piece) ==
    CASE piece = "0" -> 0
      [] piece = "00" -> 0
      [] piece = "1" -> 1
      [] piece = "2" -> 2
      [] piece = "3" -> 3
      [] piece = "4" -> 4
      [] piece = "5" -> 5
      [] piece = "10" -> 10
      [] piece = "50" -> 50
      [] piece = "10^400" -> HugeInt

\* the cents of the digits after a decimal point
FracCents(piece) ==
    CASE piece = "00" -> 0
      [] piece = "0" -> 0
      [] piece = "5" -> 50
      [] piece = "50" -> 50
      [] piece = "10" -> 10

\* float(int) raises OverflowError above the largest double
FloatOverflows(n) == n >= HugeInt

\* \s* from position i: the first position that is not white space
SkipSpaces(t, i) ==
    CHOOSE j \in i..(Len(t) + 1) :
        /\ \A k \in i..(j - 1) : IsSpace(t[k])
        /\ j = Len(t) + 1 \/ ~IsSpace(t[j])

NoMatch == [ok |-> FALSE, qty |-> 0, total |-> 0]

\* \$?\s*(\d+(?:\.\d+)?)\b from position k, after the \s* that follows the
\* separator: the number read, in cents.
NumberAt(t, qty, k) ==
    The({ IF n <= Len(t) /\ IsDigits(t[n])
          THEN [ok |-> TRUE, qty |-> qty,
                total |-> IntOf(t[n]) * 100 +
                          (IF n + 2 <= Len(t) /\ t[n + 1] = "." /\ IsDigits(t[n + 2])
                           THEN FracCents(t[n + 2]) ELSE 0)]
          ELSE NoMatch :
          n \in { IF k <= Len(t) /\ t[k] = "$" THEN SkipSpaces(t, k + 1) ELSE k } })

\* \b(\d+)\s*<sep>\s*\$?\s*(\d+(?:\.\d+)?)\b matched from piece i
MatchAt(t, i, sep) ==
    IF ~IsDigits(t[i]) THEN NoMatch
    ELSE The({ IF j <= Len(t) /\ t[j] = sep
               THEN NumberAt(t, IntOf(t[i]), SkipSpaces(t, j + 1))
               ELSE NoMatch :
               j \in {SkipSpaces(t, i + 1)} })

\* pattern.search(t): the leftmost match
ReSearch(t, sep) ==
    IF \E i \in 1..Len(t) : MatchAt(t, i, sep).ok
    THEN MatchAt(t, CHOOSE i \in 1..Len(t) :
                        /\ MatchAt(t, i, sep).ok
                        /\ \A k \in 1..(i - 1) : ~MatchAt(t, k, sep).ok, sep)
    ELSE NoMatch

\* buy\s*<n>\s*get\s*<n> from piece i, letters in either case
BuyGetAt(t, i, n) ==
    /\ Lower(t[i]) = "buy"
    /\ \E j, k, l \in 1..Len(t) :
          /\ j = SkipSpaces(t, i + 1) /\ Lower(t[j]) = n
          /\ k = SkipSpaces(t, j + 1) /\ Lower(t[k]) = "get"
          /\ l = SkipSpaces(t, k + 1) /\ Lower(t[l]) = n

\* _re_bogo.search(desc)
ReBogo(desc) ==
    \E i \in 1..Len(desc) :
        \/ Lower(desc[i]) = "bogo"
        \/ BuyGetAt(desc, i, "1")
        \/ BuyGetAt(desc, i, "one")

ParseBundlePrice(text) ==
    The({ IF m.ok /\ m.qty > 0 /\ m.total > 0 THEN m
          ELSE The({ IF f.ok /\ f.qty > 0 /\ f.total > 0 THEN f ELSE NoMatch :
                     f \in {ReSearch(LowerText(text), "for")} }) :
          m \in {ReSearch(LowerText(text), "/")} })

ParseAtPrice(text) ==
    The({ IF m.ok /\ m.qty > 0 /\ m.total > 0 THEN m ELSE NoMatch :
          m \in {ReSearch(LowerText(text), "@")} })

\* tol of _close, in cents
Tolerance == 2

\* What float(c / 100) * 100 - c comes to, in units of 2^-60, for the amounts
\* of c cents the model compares: the rounding of the decimal amount to the
\* nearest double.
FloatErr(c) ==
    CASE c = 0 -> 0
      [] c = 2 -> 48
      [] c = 98 -> -2048
      [] c = 100 -> 0
      [] c = 102 -> 2048
      [] c = 498 -> 49152
      [] c = 500 -> 0
      [] c = 502 -> -49152
      [] c = 600 -> 0
      [] c = 800 -> 0
      [] c = 1000 -> 0

\* abs(float(a) - float(b)) <= tol.  Amounts that differ by less than two
\* cents are within, by more are not; at two cents exactly the subtraction of
\* the two doubles is exact and the comparison with the double 0.02 is decided
\* by the roundings of the three numbers.
Close(a, b) ==
    \/ a - b < Tolerance /\ b - a < Tolerance
    \/ /\ a - b = Tolerance
       /\ FloatErr(a) - FloatErr(b) <= FloatErr(Tolerance)
    \/ /\ b - a = Tolerance
       /\ FloatErr(b) - FloatErr(a) <= FloatErr(Tolerance)

Note(tag, qty, price) == [tag |-> tag, qty |-> qty, price |-> price]

Raise(exc) ==
    [raised |-> exc, quantity |-> 0, unit_price |-> NoAmount, line_total |-> NoAmount,
     deal_note |-> Note("", 0, 0)]

\* The value adjust returns, or the exception of a division that was by zero.
DealAdjusted(quantity, unit_price, line_total, deal_note) ==
    IF (unit_price.some /\ unit_price.d = 0) \/ (line_total.some /\ line_total.d = 0)
    THEN Raise("ZeroDivisionError")
    ELSE [raised |-> "", quantity |-> quantity, unit_price |-> unit_price,
          line_total |-> line_total, deal_note |-> deal_note]

\* the BOGO branch, with the unit price taken before the line total
AdjustBogoUnitPriceFirst(q, up, lt, disc) ==
    The({ IF base_total.some /\ q >= 2 /\ base_total.val - disc > 0
          THEN DealAdjusted(q, Quot(base_total.val - disc, q),
                            Amount(base_total.val - disc, 1),
                            Note("bogo_effective_price", 0, 0))
          ELSE DealAdjusted(q, AsAmount(up), AsAmount(lt),
                            Note("bogo_detected_no_adjust", 0, 0)) :
          base_total \in { IF up.some THEN Some(up.val * q)
                           ELSE IF lt.some THEN lt ELSE None } })

\* 1) BOGO-like promotions
AdjustBogo(q, up, lt, disc) ==
    The({ IF base_total.some /\ q >= 2 /\ base_total.val - disc > 0
          THEN DealAdjusted(q, Quot(base_total.val - disc, q),
                            Amount(base_total.val - disc, 1),
                            Note("bogo_effective_price", 0, 0))
          ELSE DealAdjusted(q, AsAmount(up), AsAmount(lt),
                            Note("bogo_detected_no_adjust", 0, 0)) :
          base_total \in { IF lt.some THEN lt
                           ELSE IF up.some THEN Some(up.val * q) ELSE None } })

\* 2) bundle price patterns: 2/$5, 3 for 10
AdjustBundle(q, lt, disc, bundle) ==
    IF lt.some /\ q < bundle.qty /\ Close(lt.val, bundle.total)
    THEN IF FloatOverflows(bundle.qty) THEN Raise("OverflowError")
         ELSE DealAdjusted(bundle.qty,
                           IF bundle.qty > 0 THEN Quot(lt.val - disc, bundle.qty)
                           ELSE NoAmount,
                           Amount(lt.val - disc, 1),
                           Note("bundle_qty_fix", bundle.qty, bundle.total))
    ELSE IF lt.some /\ q > 0
    THEN DealAdjusted(q, Quot(lt.val - disc, q), Amount(lt.val - disc, 1),
                      Note("bundle_from_total", bundle.qty, bundle.total))
    ELSE IF FloatOverflows(bundle.qty) THEN Raise("OverflowError")
    ELSE DealAdjusted(q, Quot(bundle.total, bundle.qty),
                      Quot(bundle.total * q - disc * bundle.qty, bundle.qty),
                      Note("bundle_from_text", bundle.qty, bundle.total))

\* 3) "2 @ 4.00": the quantity and the unit price the branch goes on with
AtQuantity(q, lt, at) ==
    IF q < at.qty /\ (~lt.some \/ Close(lt.val, at.qty * at.total)) THEN at.qty ELSE q

AtUnitPrice(up, at) == IF ~up.some \/ up.val <= 0 THEN at.total ELSE up.val

AdjustAt(q, up, lt, disc, at) ==
    IF q < at.qty /\ FloatOverflows(at.qty) THEN Raise("OverflowError")
    ELSE The({ IF q2 > 0
               THEN The({ DealAdjusted(q2, Quot(net_total, q2), Amount(net_total, 1),
                                       Note("at", at.qty, at.total)) :
                          net_total \in { IF lt.some THEN lt.val - disc
                                          ELSE AtUnitPrice(up, at) * q2 - disc } })
               ELSE DealAdjusted(q2, Amount(AtUnitPrice(up, at), 1),
                                 IF lt.some THEN AsAmount(lt)
                                 ELSE Amount(AtUnitPrice(up, at) * q2 - disc, 1),
                                 Note("at_no_total", at.qty, at.total)) :
               q2 \in {AtQuantity(q, lt, at)} })

\* 4) no deal detected
AdjustNoDeal(q, up, lt, disc) ==
    IF (~up.some \/ up.val <= 0) /\ lt.some /\ q > 0
    THEN DealAdjusted(q, Quot(lt.val - disc, q), Amount(lt.val - disc, 1),
                      Note("unit_from_total", 0, 0))
    ELSE DealAdjusted(q, AsAmount(up), AsAmount(lt), Note("no_deal", 0, 0))

AdjustParsed(desc, q, up, lt, disc) ==
    IF ReBogo(desc) THEN AdjustBogo(q, up, lt, disc)
    ELSE IF ParseBundlePrice(desc).ok
    THEN AdjustBundle(q, lt, disc, ParseBundlePrice(desc))
    ELSE IF ParseAtPrice(desc).ok
    THEN AdjustAt(q, up, lt, disc, ParseAtPrice(desc))
    ELSE AdjustNoDeal(q, up, lt, disc)

Adjust(description, quantity, unit_price, line_total, discount) ==
    AdjustParsed(StripText(description),
                 IF quantity.some /\ quantity.val > 0 THEN quantity.val ELSE 1,
                 unit_price, line_total,
                 IF discount.some THEN discount.val ELSE 0)

\* The receipt lines the model hands to adjust.
DealDescriptions ==
    { <<>>,
      <<"Milk">>,
      <<"2", "/", "$", "5">>,
      <<"2", "/", "$", "1">>,
      <<"3", " ", "FOR", " ", "$", "10">>,
      <<"0", "/", "$", "5", " ", "3", " ", "for", " ", "10">>,
      <<"2", "/", "0">>,
      <<"10^400", "/", "$", "5">>,
      <<"Buy", " ", "1", " ", "Get", " ", "1">>,
      <<"BOGO", " ", "2", "/", "$", "5">>,
      <<"bogo", " ", "2", " ", "@", " ", "4">>,
      <<" ", "2", " ", "@", " ", "$", "4", ".", "00">>,
      <<"2", " ", "@", " ", "0", ".", "50">> }

DealQuantities == {None, Some(0), Some(-1), Some(1), Some(2), Some(3)}
DealUnitPrices == {None, Some(0), Some(-100), Some(250)}
LineTotals == {None, Some(0), Some(102), Some(498), Some(500), Some(502), Some(600)}
Discounts == {None, Some(0), Some(-100), Some(300), Some(600)}

InitDeal ==
    /\ deal \in { [stage |-> 0, description |-> ds, quantity |-> q, unit_price |-> up,
                   line_total |-> lt, discount |-> disc, out |-> Raise("")] :
                  ds \in DealDescriptions, q \in DealQuantities, up \in DealUnitPrices,
                  lt \in LineTotals, disc \in Discounts }
    /\ op = "init"
    /\ items_tbl = ItemRows
    /\ auto_learn = TRUE
    /\ PlannerAtRest /\ PricesAtRest /\ NormalizerAtRest /\ AliasesAtRest
    /\ ResolverAtRest /\ PipelineAtRest /\ ConversionAtRest

AdjustCall ==
    /\ deal.stage = 0
    /\ deal' = [deal EXCEPT !.stage = 1,
                            !.out = Adjust(deal.description, deal.quantity, deal.unit_price,
                                           deal.line_total, deal.discount)]
    /\ op' = "adjust"
    /\ UNCHANGED <<stores_tbl, shopping_tbl, prices, next_price_id, receipts, plan, plan_call>>
    /\ UNCHANGED <<items_tbl, norm, aliases, next_alias_id, res, pipe, auto_learn, conv>>

NextDeal == AdjustCall

SpecDeal == InitDeal /\ [][NextDeal]_vars

\* what adjust makes of its arguments before it looks at the description
QOf(call) == IF call.quantity.some /\ call.quantity.val > 0 THEN call.quantity.val ELSE 1
DiscOf(call) == IF call.discount.some THEN call.discount.val ELSE 0

\* C11: adjust never raises: whatever the description and whether quantity,
\* unit price, line total and discount are absent, zero, negative or positive,
\* it returns a DealAdjusted with a non-empty note and a quantity above zero.
C11_AdjustNeverRaises ==
    deal.stage = 1 =>
        /\ deal.out.raised = ""
        /\ deal.out.deal_note.tag # ""
        /\ deal.out.quantity > 0

\* the call's description is taken as a bundle price (no BOGO wording in it)
IsBundleCall(call) == ~ReBogo(StripText(call.description))
                      /\ ParseBundlePrice(StripText(call.description)).ok

BundleOf(call) == ParseBundlePrice(StripText(call.description))

\* C12: for a bundle-price description ('N/$M' or 'N for $M') and no line
\* total, adjust returns the unit price bundleTotal / bundleQty whatever the
\* observed quantity and unit price are, and the line total that price implies
\* for the quantity.
C12_BundleFromText ==
    (deal.stage = 1 /\ IsBundleCall(deal) /\ ~deal.line_total.some) =>
        /\ deal.out.raised = ""
        /\ deal.out.quantity = QOf(deal)
        /\ AmountEq(deal.out.unit_price, Amount(BundleOf(deal).total, BundleOf(deal).qty))
        /\ AmountEq(deal.out.line_total,
                    Amount(BundleOf(deal).total * QOf(deal) - DiscOf(deal) * BundleOf(deal).qty,
                           BundleOf(deal).qty))

\* the call's description has BOGO wording
IsBogoCall(call) == ReBogo(StripText(call.description))

\* the base total of a BOGO line: the line total, else unit price x quantity
HasBaseTotal(call) == call.line_total.some \/ call.unit_price.some

BaseTotal(call) ==
    IF call.line_total.some THEN call.line_total.val ELSE call.unit_price.val * QOf(call)

\* C19 as stated: for a BOGO-style description with a base total and a
\* quantity of at least 2 the unit price returned is
\* (baseTotal - discount) / quantity, for every discount.
C19_AsStated ==
    (deal.stage = 1 /\ IsBogoCall(deal) /\ HasBaseTotal(deal) /\ QOf(deal) >= 2) =>
        AmountEq(deal.out.unit_price, Amount(BaseTotal(deal) - DiscOf(deal), QOf(deal)))

\* C19 (amended): for a BOGO-style description adjust never goes on to the
\* bundle or '@' patterns; with a base total and a quantity of at least 2 it
\* returns (baseTotal - discount) / quantity and the net total when
\* baseTotal - discount is above zero, and in every other case it hands back
\* the unit price and line total it was given.
C19_BogoEffectivePrice ==
    (deal.stage = 1 /\ IsBogoCall(deal)) =>
        /\ deal.out.raised = ""
        /\ deal.out.quantity = QOf(deal)
        /\ IF HasBaseTotal(deal) /\ QOf(deal) >= 2 /\ BaseTotal(deal) - DiscOf(deal) > 0
           THEN /\ deal.out.deal_note.tag = "bogo_effective_price"
                /\ AmountEq(deal.out.unit_price,
                            Amount(BaseTotal(deal) - DiscOf(deal), QOf(deal)))
                /\ AmountEq(deal.out.line_total, Amount(BaseTotal(deal) - DiscOf(deal), 1))
           ELSE /\ deal.out.deal_note.tag = "bogo_detected_no_adjust"
                /\ deal.out.unit_price = AsAmount(deal.unit_price)
                /\ deal.out.line_total = AsAmount(deal.line_total)

\* 'Buy 1 Get 1' with line total 6.00, discount 3.00 and quantity 2 came
\* back as 1.50 each
C19_Witness ==
    /\ deal.stage = 1
    /\ deal.description = <<"Buy", " ", "1", " ", "Get", " ", "1">>
    /\ deal.line_total = Some(600) /\ deal.discount = Some(300) /\ deal.quantity = Some(2)
    /\ AmountEq(deal.out.unit_price, Amount(150, 1))

\* |a - b| <= 0.02 on the decimal amounts
WithinTolerance(a, b) == a - b <= Tolerance /\ b - a <= Tolerance

\* C20: for a bundle description and a line total: if the observed quantity
\* is below the bundle quantity and the line total is within 0.02 of the
\* bundle total, the quantity becomes the bundle quantity and the unit price
\* (lineTotal - discount) / bundleQty; in every other case the quantity is
\* kept and the unit price is (lineTotal - discount) / quantity.
C20_BundleWithLineTotal ==
    (deal.stage = 1 /\ IsBundleCall(deal) /\ deal.line_total.some) =>
        IF QOf(deal) < BundleOf(deal).qty
           /\ WithinTolerance(deal.line_total.val, BundleOf(deal).total)
        THEN /\ deal.out.quantity = BundleOf(deal).qty
             /\ AmountEq(deal.out.unit_price,
                         Amount(deal.line_total.val - DiscOf(deal), BundleOf(deal).qty))
        ELSE /\ deal.out.quantity = QOf(deal)
             /\ AmountEq(deal.out.unit_price,
                         Amount(deal.line_total.val - DiscOf(deal), QOf(deal)))

\* the call's description is taken as 'N @ $M' (no BOGO wording, no bundle)
IsAtCall(call) == /\ ~ReBogo(StripText(call.description))
                  /\ ~ParseBundlePrice(StripText(call.description)).ok
                  /\ ParseAtPrice(StripText(call.description)).ok

AtOf(call) == ParseAtPrice(StripText(call.description))

\* C21: for an 'N @ $M' description the quantity becomes N exactly when the
\* observed quantity is below N and there is no line total or the line total
\* is within 0.02 of N x M, and stays as observed otherwise; with no line
\* total, no unit price and no discount the unit price returned is M and the
\* line total is quantity x M (N x M when the quantity was raised).
C21_AtQuantity ==
    (deal.stage = 1 /\ IsAtCall(deal)) =>
        /\ deal.out.quantity =
              IF QOf(deal) < AtOf(deal).qty
                 /\ (~deal.line_total.some
                     \/ WithinTolerance(deal.line_total.val, AtOf(deal).qty * AtOf(deal).total))
              THEN AtOf(deal).qty ELSE QOf(deal)
        /\ (~deal.line_total.some /\ ~deal.unit_price.some /\ DiscOf(deal) = 0) =>
              /\ AmountEq(deal.out.unit_price, Amount(AtOf(deal).total, 1))
              /\ AmountEq(deal.out.line_total,
                          Amount(AtOf(deal).total * deal.out.quantity, 1))

\* the notes of the results for which adjust computed an effective unit price
EffectivePriceNotes ==
    {"bogo_effective_price", "bundle_qty_fix", "bundle_from_total", "bundle_from_text",
     "at", "unit_from_total"}

\* C30: whenever adjust computed an effective unit price, the unit price
\* times the quantity returned is the line total returned, for every input,
\* a discount that is not zero included.
C30_FieldsConsistent ==
    (deal.stage = 1 /\ deal.out.raised = ""
       /\ deal.out.deal_note.tag \in EffectivePriceNotes) =>
        /\ deal.out.unit_price.some /\ deal.out.line_total.some
        /\ AmountEq(Amount(deal.out.unit_price.n * deal.out.quantity, deal.out.unit_price.d),
                    deal.out.line_total)

\* ------------------------------------------------------------------------
\* Store planner: one call taken query by query, price points being appended
\* ------------------------------------------------------------------------
\* Every get_prices_for_item is a query of its own, on a connection of its
\* own; prices_repo.add_price_point of another thread can commit between any
\* two of them.

NoBestStore == [store_id |-> NULL, price |-> NoPrice]

NoBaseline == [baseline_total |-> Money(0, 1), baseline_has_any |-> FALSE, priced |-> <<>>]

\* The locals of build_plan_for_active_list past the early return.
StartedCall(items, stores, max_stores) ==
    [pc |-> "best", max_stores |-> max_stores, items |-> items, stores |-> stores,
     i |-> 1, j |-> 1, best |-> NoBestStore, item_best_store |-> <<>>,
     store_scores |-> <<>>, chosen_store_ids |-> <<>>, fallback_store_id |-> NULL,
     plan_by_store |-> <<>>, unassigned |-> <<>>, baseline_store |-> NULL,
     k |-> 1, m |-> 1, counters |-> NoCounters, per_store |-> <<>>,
     store_cache |-> <<>>, overall_fallback_cache |-> <<>>,
     n |-> 1, baseline |-> NoBaseline]

\* items = get_active_items(), stores = list_stores(), and the early return
StartPlan ==
    /\ plan_call.pc = "idle"
    /\ ~plan.returned
    /\ \E max_stores \in 0..MaxStoresArg :
          IF Len(ListActiveItems(shopping_tbl, FALSE)) = 0 \/ Len(ListStores(stores_tbl)) = 0
          THEN /\ plan' = NoPlanPossible(ListActiveItems(shopping_tbl, FALSE), max_stores)
               /\ plan_call' = [pc |-> "done"]
          ELSE /\ plan' = plan
               /\ plan_call' = StartedCall(ListActiveItems(shopping_tbl, FALSE),
                                           ListStores(stores_tbl), max_stores)
    /\ op' = "build_plan"
    /\ UNCHANGED <<stores_tbl, shopping_tbl, prices, next_price_id, receipts>>
    /\ UNCHANGED <<items_tbl, norm, aliases, next_alias_id, res, pipe, auto_learn, deal, conv>>

\* item_best_store[itm.id] = best_store_id, and on to the next entry
NextEntry(c, best_store_id) ==
    [c EXCEPT !.item_best_store = DictSet(@, c.items[c.i].id, best_store_id),
              !.i = @ + 1, !.j = 1, !.best = NoBestStore,
              !.pc = IF c.i = Len(c.items) THEN "select" ELSE "best"]

\* One query of _find_best_store_for_item: the entry c.i at the store c.j.
BestStoreTurn(tbl, c) ==
    The({ IF item_row = NULL THEN NextEntry(c, NULL)
          ELSE The({ IF c.j < Len(c.stores)
                     THEN [c EXCEPT !.j = @ + 1, !.best = best]
                     ELSE NextEntry(c, best.store_id) :
                     best \in { BestStoreStep(c.best, c.stores[c.j],
                                              AvgPriceForItemStore(tbl, item_row, c.stores[c.j].id,
                                                                   DaysBack, HistoryLimit)) } }) :
          item_row \in {ResolveItem(c.items[c.i])} })

BestStoreRead ==
    /\ plan_call.pc = "best"
    /\ plan_call' = BestStoreTurn(prices, plan_call)
    /\ op' = "build_plan"
    /\ UNCHANGED <<stores_tbl, shopping_tbl, prices, next_price_id, receipts, plan>>
    /\ UNCHANGED <<items_tbl, norm, aliases, next_alias_id, res, pipe, auto_learn, deal, conv>>

\* Scoring, selection, assignment and the baseline store: no query.
Assigned(c) ==
    The({ [c EXCEPT !.pc = IF Len(sa[2].plan_by_store) = 0 THEN "baseline" ELSE "cost",
                    !.store_scores = sa[1].store_scores,
                    !.chosen_store_ids = sa[1].chosen_store_ids,
                    !.fallback_store_id = sa[1].fallback_store_id,
                    !.plan_by_store = sa[2].plan_by_store,
                    !.unassigned = sa[2].unassigned,
                    !.baseline_store = ChooseBaselineStore(c.stores)] :
          sa \in { <<sel, AssignItems(c.items, c.item_best_store, sel.chosen_store_ids,
                                      sel.fallback_store_id)>> :
                   sel \in {SelectStores(c.items, c.stores, c.max_stores, c.item_best_store)} } })

SelectAndAssign ==
    /\ plan_call.pc = "select"
    /\ plan_call' = Assigned(plan_call)
    /\ op' = "build_plan"
    /\ UNCHANGED <<stores_tbl, shopping_tbl, prices, next_price_id, receipts, plan>>
    /\ UNCHANGED <<items_tbl, norm, aliases, next_alias_id, res, pipe, auto_learn, deal, conv>>

\* The call is inside one of the two cost loops, at an entry.
AtCostEntry(c) ==
    /\ c.pc = "cost"
    /\ c.k <= Len(c.plan_by_store)
    /\ c.m <= Len(c.plan_by_store[c.k].val)

AtBaselineEntry(c) == c.pc = "baseline" /\ c.n <= Len(PlanItems(c.plan_by_store))

\* The entry and the store _estimate_unit_price is called for.
EstimateFor(c) ==
    IF c.pc = "cost"
    THEN [item_row |-> ResolveItem(c.plan_by_store[c.k].val[c.m]),
          s_item |-> c.plan_by_store[c.k].val[c.m],
          store_id |-> c.plan_by_store[c.k].key]
    ELSE [item_row |-> ResolveItem(PlanItems(c.plan_by_store)[c.n]),
          s_item |-> PlanItems(c.plan_by_store)[c.n],
          store_id |-> c.baseline_store]

CacheKey(e) == <<e.item_row, e.store_id>>

\* key not in store_cache
NeedsStoreRead(c, e) == e.item_row # NULL /\ ~DictHas(c.store_cache, CacheKey(e))

\* store_cache[key] is None and item_id not in overall_fallback_cache
NeedsOverallRead(c, e) ==
    /\ e.item_row # NULL
    /\ DictHas(c.store_cache, CacheKey(e))
    /\ DictGet(c.store_cache, CacheKey(e), NoPrice) = NoPrice
    /\ ~DictHas(c.overall_fallback_cache, e.item_row)

\* What _estimate_unit_price returns once the caches are filled.
CachedEstimate(c, e) ==
    IF e.item_row = NULL THEN NoPrice
    ELSE IF DictGet(c.store_cache, CacheKey(e), NoPrice) # NoPrice
    THEN DictGet(c.store_cache, CacheKey(e), NoPrice)
    ELSE DictGet(c.overall_fallback_cache, e.item_row, NoPrice)

\* _estimate_unit_price: the query for the store's own history
EstimateStoreRead ==
    /\ AtCostEntry(plan_call) \/ AtBaselineEntry(plan_call)
    /\ NeedsStoreRead(plan_call, EstimateFor(plan_call))
    /\ plan_call' = The({ [plan_call EXCEPT !.store_cache =
                              DictSet(@, CacheKey(e),
                                      AvgPriceForItemStore(prices, e.item_row, e.store_id,
                                                           DaysBack, HistoryLimit))] :
                          e \in {EstimateFor(plan_call)} })
    /\ op' = "build_plan"
    /\ UNCHANGED <<stores_tbl, shopping_tbl, prices, next_price_id, receipts, plan>>
    /\ UNCHANGED <<items_tbl, norm, aliases, next_alias_id, res, pipe, auto_learn, deal, conv>>

\* _estimate_unit_price: the query for the item's history at all stores
EstimateOverallRead ==
    /\ AtCostEntry(plan_call) \/ AtBaselineEntry(plan_call)
    /\ NeedsOverallRead(plan_call, EstimateFor(plan_call))
    /\ plan_call' = The({ [plan_call EXCEPT !.overall_fallback_cache =
                              DictSet(@, e.item_row,
                                      AvgPriceForItemStore(prices, e.item_row, NULL, DaysBack,
                                                           Max2(HistoryLimit, OverallLimitFloor)))] :
                          e \in {EstimateFor(plan_call)} })
    /\ op' = "build_plan"
    /\ UNCHANGED <<stores_tbl, shopping_tbl, prices, next_price_id, receipts, plan>>
    /\ UNCHANGED <<items_tbl, norm, aliases, next_alias_id, res, pipe, auto_learn, deal, conv>>

\* The rest of one turn of the cost loop of a store.
CostAdd ==
    /\ AtCostEntry(plan_call)
    /\ ~NeedsStoreRead(plan_call, EstimateFor(plan_call))
    /\ ~NeedsOverallRead(plan_call, EstimateFor(plan_call))
    /\ plan_call' = The({ [plan_call EXCEPT !.counters =
                              CostTurn(@, e.s_item, e.item_row, CachedEstimate(plan_call, e)),
                                            !.m = @ + 1] :
                          e \in {EstimateFor(plan_call)} })
    /\ op' = "build_plan"
    /\ UNCHANGED <<stores_tbl, shopping_tbl, prices, next_price_id, receipts, plan>>
    /\ UNCHANGED <<items_tbl, norm, aliases, next_alias_id, res, pipe, auto_learn, deal, conv>>

\* per_store[store_id] = {...}, basket_total += subtotal, and the next store
CostStoreDone ==
    /\ plan_call.pc = "cost"
    /\ plan_call.k <= Len(plan_call.plan_by_store)
    /\ plan_call.m > Len(plan_call.plan_by_store[plan_call.k].val)
    /\ plan_call' = [plan_call EXCEPT
                        !.per_store = Append(@, [key |-> plan_call.plan_by_store[plan_call.k].key,
                                                 val |-> plan_call.counters]),
                        !.counters = NoCounters,
                        !.k = @ + 1, !.m = 1,
                        !.pc = IF plan_call.k = Len(plan_call.plan_by_store)
                               THEN "baseline" ELSE "cost"]
    /\ op' = "build_plan"
    /\ UNCHANGED <<stores_tbl, shopping_tbl, prices, next_price_id, receipts, plan>>
    /\ UNCHANGED <<items_tbl, norm, aliases, next_alias_id, res, pipe, auto_learn, deal, conv>>

\* The rest of one turn of the baseline loop.
BaselineAdd ==
    /\ AtBaselineEntry(plan_call)
    /\ ~NeedsStoreRead(plan_call, EstimateFor(plan_call))
    /\ ~NeedsOverallRead(plan_call, EstimateFor(plan_call))
    /\ plan_call' = The({ [plan_call EXCEPT !.baseline =
                              BaselineTurn(@, e.s_item, e.item_row, CachedEstimate(plan_call, e)),
                                            !.n = @ + 1] :
                          e \in {EstimateFor(plan_call)} })
    /\ op' = "build_plan"
    /\ UNCHANGED <<stores_tbl, shopping_tbl, prices, next_price_id, receipts, plan>>
    /\ UNCHANGED <<items_tbl, norm, aliases, next_alias_id, res, pipe, auto_learn, deal, conv>>

\* The totals, the summary and the returned dict.
ReturnPlan ==
    /\ plan_call.pc = "baseline"
    /\ plan_call.n > Len(PlanItems(plan_call.plan_by_store))
    /\ plan' = ReturnedPlan(plan_call.stores, plan_call.max_stores, plan_call, plan_call,
                            CostResults(plan_call.plan_by_store, plan_call.unassigned,
                                        plan_call.per_store, plan_call.baseline))
    /\ plan_call' = [pc |-> "done"]
    /\ op' = "build_plan"
    /\ UNCHANGED <<stores_tbl, shopping_tbl, prices, next_price_id, receipts>>
    /\ UNCHANGED <<items_tbl, norm, aliases, next_alias_id, res, pipe, auto_learn, deal, conv>>

\* The stores of the databases the call is followed on: one plain store and
\* one favorite of higher priority.
ConcurrentStoreKinds == {k \in StoreKinds : k.name \in {"a", "b"}}

\* A database with stores and a shopping list and no price point yet: every
\* price point is appended while the call runs or before it starts.
InitPlanConcurrent ==
    /\ stores_tbl \in {TableOf(r) : r \in InjSeqsUpTo(ConcurrentStoreKinds, MaxStoreRows)}
    /\ shopping_tbl \in {TableOf(r) : r \in InjSeqsUpTo(EntryKinds, MaxListRows)}
    /\ prices = {}
    /\ next_price_id = 1
    /\ receipts = ReceiptIds
    /\ plan = NoPlan
    /\ plan_call = NoCall
    /\ op = "init"
    /\ items_tbl = ItemRows
    /\ NormalizerAtRest /\ AliasesAtRest /\ ResolverAtRest /\ PipelineAtRest
    /\ auto_learn = TRUE /\ DealAtRest /\ ConversionAtRest

NextPlanConcurrent ==
    \/ StartPlan
    \/ BestStoreRead
    \/ SelectAndAssign
    \/ EstimateStoreRead
    \/ EstimateOverallRead
    \/ CostAdd
    \/ CostStoreDone
    \/ BaselineAdd
    \/ ReturnPlan
    \/ AddPricePoint

SpecPlanConcurrent == InitPlanConcurrent /\ [][NextPlanConcurrent]_vars

\* ------------------------------------------------------------------------
\* Properties of the call under concurrent appends
\* ------------------------------------------------------------------------
\* Every active entry is in exactly one bucket.
OneBucketEach ==
    /\ \A i \in 1..Len(ActiveEntries) : Occurrences(ActiveEntries[i]) = 1
    /\ BucketTotal = Len(ActiveEntries)

CoverageSums ==
    plan.coverage.estimated_items + plan.coverage.missing_items = plan.coverage.total_items

\* An entry that is at its best store is at a selected store.
BestStoreAssignmentsSelected ==
    \A i \in 1..Len(ActiveEntries) :
        (BestOf(ActiveEntries[i]) # NULL /\ AssignedStore(ActiveEntries[i]) = BestOf(ActiveEntries[i]))
            => AssignedStore(ActiveEntries[i]) \in SelectedStores

\* C27: whatever price points are appended between the queries of one call,
\* the returned plan has every active entry in exactly one bucket, at most
\* max_stores stores, estimated + missing = total, and every entry that is
\* at its best store at a selected store.
C27_StructureUnderAppends ==
    plan.returned =>
        /\ OneBucketEach
        /\ Len(plan.stores) <= plan.max_stores
        /\ CoverageSums
        /\ BestStoreAssignmentsSelected

====
